---- MODULE Spec2Model ----
(***************************************************************************)
(* A model of the Dartmouth BASIC implementation: the AST, the tree-walking *)
(* interpreter (evaluator.Evaluator), the Go-emitting compiler              *)
(* (compiler.Compile) together with the runtime it emits, and the parser's  *)
(* statement grouping.                                                      *)
(*                                                                          *)
(* Numbers are float64 in the program; the model keeps them as exact        *)
(* rationals n/d in lowest terms, which agrees with float64 on the dyadic   *)
(* values the bounded inputs produce.                                       *)
(***************************************************************************)
EXTENDS Integers, Sequences, FiniteSets, TLC

(***************************************************************************)
(* Bounds of the model                                                      *)
(***************************************************************************)
\* greatest number of dispatch-loop iterations a run of the model follows
MaxSteps == 11
\* greatest number of lines of the programs of straight statements
MaxLines == 3
\* the FOR loops the model enumerates run between 0 and MaxLoopEnd
MaxLoopEnd == 3
\* greatest number of statements chained in a branch of an IF
MaxChain == 2
MaxItems == 2

(***************************************************************************)
(* float64 arithmetic on exact rationals                                    *)
(***************************************************************************)
Abs(i) == IF i < 0 THEN -i ELSE i

RECURSIVE Gcd(_, _)
Gcd(a, b) == IF b = 0 THEN a ELSE Gcd(b, a % b)

\* the rational n/d in lowest terms with a positive denominator
Rat(n, d) ==
    LET g == Gcd(Abs(n), Abs(d))
        s == IF d < 0 THEN -1 ELSE 1
    IN  [n |-> (s * n) \div g, d |-> (s * d) \div g]

Q(i) == [n |-> i, d |-> 1]

NumAdd(a, b) == Rat(a.n * b.d + b.n * a.d, a.d * b.d)
NumSub(a, b) == Rat(a.n * b.d - b.n * a.d, a.d * b.d)
NumMul(a, b) == Rat(a.n * b.n, a.d * b.d)
NumDiv(a, b) == Rat(a.n * b.d, a.d * b.n)
NumNeg(a)    == [n |-> -a.n, d |-> a.d]
NumLt(a, b)  == a.n * b.d < b.n * a.d
NumLe(a, b)  == a.n * b.d <= b.n * a.d
NumEq(a, b)  == a.n * b.d = b.n * a.d
NumIsZero(a) == a.n = 0

\* rounding down instead
GoIntFloor(a) == a.n \div a.d

\* Go's int(f): truncation toward zero
GoInt(a) == IF a.n >= 0 THEN a.n \div a.d ELSE -((-a.n) \div a.d)

\* math.Mod(a, b) for b # 0: the result has the sign of a
NumMod(a, b) == NumSub(a, NumMul(b, Q(GoInt(NumDiv(a, b)))))

(***************************************************************************)
(* ast: expressions and statements                                          *)
(***************************************************************************)
Nil == [k |-> "nil"]

NumberLiteral(v)      == [k |-> "NumberLiteral", NumValue |-> v]
StringLiteral(s)      == [k |-> "StringLiteral", StrValue |-> s]
Identifier(name)      == [k |-> "Identifier", Name |-> name]
InfixExpression(op, l, r) ==
    [k |-> "InfixExpression", Operator |-> op, Left |-> l, Right |-> r]
PrefixExpression(op, r) ==
    [k |-> "PrefixExpression", Operator |-> op, Right |-> r]
ArrayAccess(name, idx) == [k |-> "ArrayAccess", Name |-> name, Index |-> idx]

PrintStatement(exprs, seps, nl) ==
    [k |-> "PrintStatement", Expressions |-> exprs, Separators |-> seps,
     TrailingNewline |-> nl]
LetStatement(name, value) == [k |-> "LetStatement", Name |-> name, Value |-> value]
IfStatement(cond, cons, alt) ==
    [k |-> "IfStatement", Condition |-> cond, Consequence |-> cons,
     Alternative |-> alt]
GotoStatement(e)   == [k |-> "GotoStatement", LineNumber |-> e]
GosubStatement(e)  == [k |-> "GosubStatement", LineNumber |-> e]
ReturnStatement    == [k |-> "ReturnStatement"]
ForStatement(v, start, end, step) ==
    [k |-> "ForStatement", Variable |-> v, Start |-> start, End |-> end,
     Step |-> step]
\* Variable is a name, or "" for a NEXT without a variable (a nil Identifier)
NextStatement(v)   == [k |-> "NextStatement", Variable |-> v]
InputStatement(prompt, vars) ==
    [k |-> "InputStatement", Prompt |-> prompt, Variables |-> vars]
EndStatement       == [k |-> "EndStatement"]
RemStatement(c)    == [k |-> "RemStatement", Comment |-> c]
DimStatement(name, size) == [k |-> "DimStatement", Name |-> name, Size |-> size]
ExpressionStatement(e) == [k |-> "ExpressionStatement", Expression |-> e]
SequenceStatement(stmts) == [k |-> "SequenceStatement", Statements |-> stmts]
\* a nil pointer of a statement type held in a Statement interface: it is
\* not equal to nil
TypedNil(type) == [k |-> "typednil", of |-> type]

(***************************************************************************)
(* evaluator: values and the environment                                    *)
(***************************************************************************)
NumberValue(v) == [Type |-> "NUMBER", Num |-> v, Str |-> ""]
StringValue(s) == [Type |-> "STRING", Num |-> Q(0), Str |-> s]

EmptyMap == [x \in {} |-> Nil]

\* map[key] = val
MapSet(m, key, val) ==
    [x \in DOMAIN m \cup {key} |-> IF x = key THEN val ELSE m[x]]
\* v named x in K: K(v)
Bind(v, K(_)) == K(v)

\* delete(m, key)
MapDelete(m, key) == [x \in DOMAIN m \ {key} |-> m[x]]

\* fmt.Print(s) on an output kept as the list of its non-empty writes
Write(out, s) == IF s = "" THEN out ELSE Append(out, s)

\* the bytes an output consists of
RECURSIVE Bytes(_)
Bytes(out) == IF out = <<>> THEN "" ELSE Head(out) \o Bytes(Tail(out))

Last(q) == q[Len(q)]

\* the decimal digits of the fraction r/d, 0 <= r < d, at most `fuel' of them
RECURSIVE FracDigits(_, _, _)
FracDigits(r, d, fuel) ==
    IF r = 0 \/ fuel = 0 THEN ""
    ELSE ToString((r * 10) \div d) \o FracDigits((r * 10) % d, d, fuel - 1)

\* fmt.Sprintf("%g", v) for |v| in [1e-4, 1e6) or v = 0 (no exponent form)
FormatG(a) ==
    LET i == Abs(a.n) \div a.d
        r == Abs(a.n) % a.d
    IN  (IF a.n < 0 THEN "-" ELSE "") \o ToString(i) \o
        (IF r = 0 THEN "" ELSE "." \o FracDigits(r, a.d, 17))

Inspect(val) == IF val.Type = "NUMBER" THEN FormatG(val.Num) ELSE val.Str

isTruthy(val) ==
    IF val.Type = "NUMBER" THEN ~NumIsZero(val.Num) ELSE val.Str # ""

Bool(b) == NumberValue(IF b THEN Q(1) ELSE Q(0))

\* results of expression evaluation: a value or an error
Ok(v)    == [ok |-> TRUE, val |-> v, err |-> ""]
Err(msg) == [ok |-> FALSE, val |-> NumberValue(Q(0)), err |-> msg]

evalInfixOp(op, left, right) ==
    IF left.Type = "NUMBER" /\ right.Type = "NUMBER"
       /\ op \in {"+", "-", "*", "/", "MOD", "<", ">", "<=", ">=", "==", "<>",
                  "AND", "OR"}
    THEN LET a == left.Num
             b == right.Num
         IN  CASE op = "+" -> Ok(NumberValue(NumAdd(a, b)))
               [] op = "-" -> Ok(NumberValue(NumSub(a, b)))
               [] op = "*" -> Ok(NumberValue(NumMul(a, b)))
               [] op = "/" -> IF NumIsZero(b) THEN Err("division by zero")
                              ELSE Ok(NumberValue(NumDiv(a, b)))
               [] op = "MOD" -> Ok(NumberValue(NumMod(a, b)))
               [] op = "<"  -> Ok(Bool(NumLt(a, b)))
               [] op = ">"  -> Ok(Bool(NumLt(b, a)))
               [] op = "<=" -> Ok(Bool(NumLe(a, b)))
               [] op = ">=" -> Ok(Bool(NumLe(b, a)))
               [] op = "==" -> Ok(Bool(NumEq(a, b)))
               [] op = "<>" -> Ok(Bool(~NumEq(a, b)))
               [] op = "AND" -> Ok(Bool(isTruthy(left) /\ isTruthy(right)))
               [] op = "OR"  -> Ok(Bool(isTruthy(left) \/ isTruthy(right)))
    ELSE IF left.Type = "STRING" /\ right.Type = "STRING"
            /\ op \in {"+", "==", "<>"}
    THEN CASE op = "+"  -> Ok(StringValue(left.Str \o right.Str))
           [] op = "==" -> Ok(Bool(left.Str = right.Str))
           [] op = "<>" -> Ok(Bool(left.Str # right.Str))
    ELSE Err("unsupported operation: " \o left.Type \o " " \o op \o " "
             \o right.Type)

evalPrefixOp(op, right) ==
    CASE op = "-" -> IF right.Type = "NUMBER"
                     THEN Ok(NumberValue(NumNeg(right.Num)))
                     ELSE Err("cannot negate non-number")
      [] op = "NOT" -> Ok(Bool(~isTruthy(right)))
      [] OTHER -> Err("unknown operator: " \o op)

\* evalExpression(expr) in the environment (vars, arrs)
\* an evaluator that reads 0 from an array no DIM has declared
RECURSIVE evalExpressionAnyArray(_, _, _)
evalExpressionAnyArray(expr, vars, arrs) ==
    CASE expr.k = "NumberLiteral" -> Ok(NumberValue(expr.NumValue))
      [] expr.k = "StringLiteral" -> Ok(StringValue(expr.StrValue))
      [] expr.k = "Identifier" ->
            IF expr.Name \in DOMAIN vars THEN Ok(vars[expr.Name])
            ELSE Ok(NumberValue(Q(0)))
      [] expr.k = "InfixExpression" ->
            LET l == evalExpressionAnyArray(expr.Left, vars, arrs)
            IN  IF ~l.ok THEN l
                ELSE LET r == evalExpressionAnyArray(expr.Right, vars, arrs)
                     IN  IF ~r.ok THEN r
                         ELSE evalInfixOp(expr.Operator, l.val, r.val)
      [] expr.k = "PrefixExpression" ->
            LET r == evalExpressionAnyArray(expr.Right, vars, arrs)
            IN  IF ~r.ok THEN r ELSE evalPrefixOp(expr.Operator, r.val)
      [] expr.k = "ArrayAccess" ->
            IF expr.Name \notin DOMAIN arrs
            THEN Ok(NumberValue(Q(0)))
            ELSE LET i == evalExpressionAnyArray(expr.Index, vars, arrs)
                 IN  IF ~i.ok THEN i
                     ELSE IF i.val.Type # "NUMBER"
                     THEN Err("array index must be a number")
                     ELSE IF GoInt(i.val.Num) \in DOMAIN arrs[expr.Name]
                     THEN Ok(arrs[expr.Name][GoInt(i.val.Num)])
                     ELSE Ok(NumberValue(Q(0)))
      [] OTHER -> Err("unknown expression type")

\* an evaluator whose AND and OR leave the right operand unevaluated when
\* the left one decides
RECURSIVE evalExpressionShort(_, _, _)
evalExpressionShort(expr, vars, arrs) ==
    CASE expr.k = "NumberLiteral" -> Ok(NumberValue(expr.NumValue))
      [] expr.k = "StringLiteral" -> Ok(StringValue(expr.StrValue))
      [] expr.k = "Identifier" ->
            IF expr.Name \in DOMAIN vars THEN Ok(vars[expr.Name])
            ELSE Ok(NumberValue(Q(0)))
      [] expr.k = "InfixExpression" ->
            LET l == evalExpressionShort(expr.Left, vars, arrs)
            IN  IF ~l.ok THEN l
                ELSE IF l.val.Type = "NUMBER" /\ expr.Operator = "AND"
                        /\ ~isTruthy(l.val)
                THEN Ok(Bool(FALSE))
                ELSE IF l.val.Type = "NUMBER" /\ expr.Operator = "OR"
                        /\ isTruthy(l.val)
                THEN Ok(Bool(TRUE))
                ELSE LET r == evalExpressionShort(expr.Right, vars, arrs)
                     IN  IF ~r.ok THEN r
                         ELSE evalInfixOp(expr.Operator, l.val, r.val)
      [] expr.k = "PrefixExpression" ->
            LET r == evalExpressionShort(expr.Right, vars, arrs)
            IN  IF ~r.ok THEN r ELSE evalPrefixOp(expr.Operator, r.val)
      [] expr.k = "ArrayAccess" ->
            IF expr.Name \notin DOMAIN arrs
            THEN Err("array " \o expr.Name \o " not defined")
            ELSE LET i == evalExpressionShort(expr.Index, vars, arrs)
                 IN  IF ~i.ok THEN i
                     ELSE IF i.val.Type # "NUMBER"
                     THEN Err("array index must be a number")
                     ELSE IF GoInt(i.val.Num) \in DOMAIN arrs[expr.Name]
                     THEN Ok(arrs[expr.Name][GoInt(i.val.Num)])
                     ELSE Ok(NumberValue(Q(0)))
      [] OTHER -> Err("unknown expression type")

RECURSIVE evalExpression(_, _, _)
evalExpression(expr, vars, arrs) ==
    CASE expr.k = "NumberLiteral" -> Ok(NumberValue(expr.NumValue))
      [] expr.k = "StringLiteral" -> Ok(StringValue(expr.StrValue))
      [] expr.k = "Identifier" ->
            IF expr.Name \in DOMAIN vars THEN Ok(vars[expr.Name])
            ELSE Ok(NumberValue(Q(0)))
      [] expr.k = "InfixExpression" ->
            LET l == evalExpression(expr.Left, vars, arrs)
            IN  IF ~l.ok THEN l
                ELSE LET r == evalExpression(expr.Right, vars, arrs)
                     IN  IF ~r.ok THEN r
                         ELSE evalInfixOp(expr.Operator, l.val, r.val)
      [] expr.k = "PrefixExpression" ->
            LET r == evalExpression(expr.Right, vars, arrs)
            IN  IF ~r.ok THEN r ELSE evalPrefixOp(expr.Operator, r.val)
      [] expr.k = "ArrayAccess" ->
            IF expr.Name \notin DOMAIN arrs
            THEN Err("array " \o expr.Name \o " not defined")
            ELSE LET i == evalExpression(expr.Index, vars, arrs)
                 IN  IF ~i.ok THEN i
                     ELSE IF i.val.Type # "NUMBER"
                     THEN Err("array index must be a number")
                     ELSE IF GoInt(i.val.Num) \in DOMAIN arrs[expr.Name]
                     THEN Ok(arrs[expr.Name][GoInt(i.val.Num)])
                     ELSE Ok(NumberValue(Q(0)))
      [] OTHER -> Err("unknown expression type")

(***************************************************************************)
(* State                                                                    *)
(***************************************************************************)
VARIABLES
    source,       \* the tokens of the program text
    input,        \* the lines standard input holds when a run starts
    program,      \* ast.Program.Statements: line number -> statement
    errors,       \* Parser.errors after ParseProgram
    \* evaluator.Evaluator
    lines,        \* Evaluator.lines: the declared line numbers, ascending
    currentLine,  \* Evaluator.currentLine: an index into lines (0-based)
    callStack,    \* Evaluator.callStack
    forLoops,     \* Evaluator.forLoops: variable name -> ForLoopState
    halted,       \* Evaluator.halted
    variables,    \* Environment.variables
    arrays,       \* Environment.arrays
    reader,       \* Environment.reader: the input lines not yet read
    stdout,       \* the non-empty writes of the interpreter to standard
                  \* output, in order
    \* the activation of Evaluator.Run
    ctl,          \* "parse", "start", "loop" (at the loop test), "eval",
                  \* "done"
    lineNum,      \* Run's local lineNum: the line being executed
    work,         \* the statements evalStatement has still to execute
    result,       \* what Run returned
    \* history
    trace,        \* the line and kind of every statement evalStatement
                  \* was called on, in order
    steps,        \* the number of dispatch-loop iterations begun
    fetched,      \* the line numbers the dispatch loop fetched, in order
    transfers,    \* the assignments to currentLine made while executing the
                  \* line fetched last: [k, line, first]
    chose,        \* a NEXT without a variable has picked among several
                  \* open loops in this run
    \* main: the mode of the process and runREPL's state
    mode,         \* "file" (runFile, then compileFile on the same text) or
                  \* "repl" (runREPL)
    session,      \* what the terminal still holds for the REPL: its entries
    stored,       \* runREPL's lines: line number -> the raw line
    todo,         \* handleProgramInput: the keys of program.Statements its
                  \* loop has still to visit
    runs,         \* the runs of Evaluator.Run the REPL has completed
    mark,         \* how many writes standard output held when the current
                  \* run began
    callSites,    \* for every entry of callStack, the line of its GOSUB and
                  \* whether currentLine was still that line's index
    \* compiler
    emitted,      \* what Compile returned
    go,           \* the state of the emitted program's run()
    \* lexer
    lexerInput,   \* Lexer.input: the characters of a text being lexed
    position,     \* Lexer.position: the index of Lexer.ch in the input
    \* runREPL's commands on the line buffer
    stderr        \* what LOAD and DELETE wrote to standard error, in order

evars == <<lines, currentLine, callStack, forLoops, halted, variables,
           arrays, reader, stdout>>
rvars == <<ctl, lineNum, work, result, trace, steps>>
hvars == <<fetched, transfers, callSites, chose>>
replvars == <<mode, session, stored, todo, runs, mark>>
cvars == <<emitted, go>>
lvars == <<lexerInput, position>>
ovars == <<lvars, stderr>>
pvars == <<source, input, program, errors, replvars, ovars>>
vars  == <<pvars, evars, rvars, hvars, cvars>>

Running == [status |-> "running"]
Success == [status |-> "ok"]
Failure(line, msg) == [status |-> "error", line |-> line, msg |-> msg]

\* the line numbers in descending order
RECURSIVE DescendingInts(_)
DescendingInts(S) ==
    IF S = {} THEN <<>>
    ELSE LET m == CHOOSE x \in S : \A y \in S : x >= y
         IN  <<m>> \o DescendingInts(S \ {m})

\* sort.Ints over a set of distinct line numbers
RECURSIVE SortInts(_)
SortInts(S) ==
    IF S = {} THEN <<>>
    ELSE LET m == CHOOSE x \in S : \A y \in S : x <= y
         IN  <<m>> \o SortInts(S \ {m})

\* the index i with lines[i] = target (0-based), or -1
IndexOfLine(ls, target) ==
    IF \E i \in 1..Len(ls) : ls[i] = target
    THEN (CHOOSE i \in 1..Len(ls) : ls[i] = target) - 1
    ELSE -1

\* the line number at index i (0-based), 0 where the list has none
LineAt(ls, i) == IF i >= 0 /\ i < Len(ls) THEN ls[i + 1] ELSE 0

\* a loop state that resumes at the FOR's own line
ForLoopStateAtFor(name, end, step, startLine) ==
    [Variable |-> name, End |-> end, Step |-> step,
     StartLine |-> startLine - 1]

ForLoopState(name, end, step, startLine) ==
    [Variable |-> name, End |-> end, Step |-> step, StartLine |-> startLine]

(***************************************************************************)
(* strconv and strings on the texts the model reads                         *)
(***************************************************************************)
\* greatest integer written as a digit sequence in a source or an input line
MaxLiteral == 40

\* the integer a digit sequence denotes
IsDigits(s) == \E i \in 0..MaxLiteral : ToString(i) = s
DigitsValue(s) == CHOOSE i \in 0..MaxLiteral : ToString(i) = s

\* strconv.Atoi on a NUMBER token's literal
Atoi(s) ==
    IF IsDigits(s) THEN [ok |-> TRUE, int |-> DigitsValue(s)]
    ELSE [ok |-> FALSE, int |-> 0]

\* strconv.ParseFloat: ok is FALSE when it returns an error
ParseFloat(s) ==
    IF IsDigits(s) THEN [ok |-> TRUE, num |-> Q(DigitsValue(s))]
    ELSE CASE s = "0.5"  -> [ok |-> TRUE, num |-> Rat(1, 2)]
           [] s = "2.5"  -> [ok |-> TRUE, num |-> Rat(5, 2)]
           [] s = "20.5" -> [ok |-> TRUE, num |-> Rat(41, 2)]
           [] s = "-1"   -> [ok |-> TRUE, num |-> Q(-1)]
           [] OTHER      -> [ok |-> FALSE, num |-> Q(0)]

\* a Go string is the sequence of its characters where the program takes
\* it apart (an input line, a word of the source) and a TLA+ string
\* elsewhere: the string of a sequence of characters
RECURSIVE Join(_)
Join(chars) == IF chars = <<>> THEN "" ELSE Head(chars) \o Join(Tail(chars))

\* strings.TrimSpace
IsSpace(ch) == ch \in {" ", "\t", "\n", "\r"}
RECURSIVE TrimLeft(_)
TrimLeft(chars) ==
    IF chars # <<>> /\ IsSpace(Head(chars)) THEN TrimLeft(Tail(chars))
    ELSE chars
RECURSIVE TrimRight(_)
TrimRight(chars) ==
    IF chars # <<>> /\ IsSpace(chars[Len(chars)])
    THEN TrimRight(SubSeq(chars, 1, Len(chars) - 1))
    ELSE chars
TrimSpace(chars) == TrimRight(TrimLeft(chars))

\* a Split that drops the fields that are empty
RECURSIVE SplitNonEmpty(_, _)
SplitNonEmpty(chars, field) ==
    IF chars = <<>> THEN (IF field = <<>> THEN <<>> ELSE <<field>>)
    ELSE IF Head(chars) = ","
    THEN (IF field = <<>> THEN <<>> ELSE <<field>>)
         \o SplitNonEmpty(Tail(chars), <<>>)
    ELSE SplitNonEmpty(Tail(chars), Append(field, Head(chars)))

\* strings.Split(line, ","), field being the characters of the current
\* field read so far
RECURSIVE Split(_, _)
Split(chars, field) ==
    IF chars = <<>> THEN <<field>>
    ELSE IF Head(chars) = "," THEN <<field>> \o Split(Tail(chars), <<>>)
    ELSE Split(Tail(chars), Append(field, Head(chars)))

(***************************************************************************)
(* evaluator.Evaluator.Run and evalStatement                                *)
(*                                                                          *)
(* evalStatement's recursion over SequenceStatement and IfStatement is kept *)
(* as the list `work' of statements still to execute on the current line.   *)
(***************************************************************************)
Cur  == Head(work)
Rest == Tail(work)

\* evalStatement is entered on a statement of kind `kind'
Dispatch(kind) ==
    /\ ctl = "eval"
    /\ work # <<>>
    /\ Cur.k = kind
    /\ trace' = Append(trace, [line |-> lineNum, k |-> kind,
                                v |-> IF kind = "ForStatement"
                                      THEN Cur.Variable ELSE "",
                                first |-> transfers = <<>>])
    /\ chose' = (\/ chose
                 \/ /\ kind = "NextStatement"
                    /\ Cur.Variable = ""
                    /\ Cardinality(DOMAIN forLoops) > 1)
    /\ UNCHANGED <<pvars, lines, lineNum, steps, fetched, cvars>>

\* a handler that leaves currentLine and callStack alone
NoTransfer == UNCHANGED <<transfers, callSites>>

\* the handler assigned currentLine: it now designates the line before `line'
Transfer(kind, line) ==
    transfers' = Append(transfers, [k |-> kind, line |-> line,
                                    first |-> transfers = <<>>])

\* a nil that ends the line: the statements left on it are dropped
ReturnNilEndsLine ==
    /\ work' = <<>>
    /\ UNCHANGED <<ctl, result>>

\* the handler returns nil: evalStatement goes on with what is left
ReturnNil ==
    /\ work' = Rest
    /\ UNCHANGED <<ctl, result>>

\* the error is recorded and evalStatement goes on with what is left
ReturnErrAndGoOn(msg) ==
    /\ work' = Rest
    /\ ctl' = ctl
    /\ result' = Failure(lineNum, msg)

\* the handler returns an error: Run wraps it with lineNum and returns
ReturnErr(msg) ==
    /\ work' = <<>>
    /\ ctl' = "done"
    /\ result' = Failure(lineNum, msg)

RunStart ==
    /\ ctl = "start"
    /\ IF Len(lines) = 0
       THEN /\ ctl' = "done"
            /\ result' = Success
            /\ UNCHANGED currentLine
       ELSE /\ ctl' = "loop"
            /\ currentLine' = 0
            /\ UNCHANGED result
    /\ UNCHANGED <<pvars, lines, callStack, forLoops, halted,
                   variables, arrays, reader, stdout, lineNum, work, trace,
                   steps, hvars, cvars>>

\* the loop test holds: fetch the statement of the current line
RunFetch ==
    /\ ctl = "loop"
    /\ currentLine < Len(lines) /\ ~halted
    /\ steps < MaxSteps
    /\ lineNum' = lines[currentLine + 1]
    /\ work' = <<program[lines[currentLine + 1]]>>
    /\ ctl' = "eval"
    /\ steps' = steps + 1
    /\ fetched' = Append(fetched, lines[currentLine + 1])
    /\ transfers' = <<>>
    /\ UNCHANGED <<pvars, evars, result, trace, callSites, chose, cvars>>

\* a Run that leaves e.currentLine as the line left it
RunAdvanceStay ==
    /\ ctl = "eval"
    /\ work = <<>>
    /\ currentLine' = currentLine
    /\ ctl' = "loop"
    /\ UNCHANGED <<pvars, lines, callStack, forLoops, halted,
                   variables, arrays, reader, stdout, lineNum, work, result,
                   trace, steps, hvars, cvars>>

\* evalStatement returned nil to Run: e.currentLine++
RunAdvance ==
    /\ ctl = "eval"
    /\ work = <<>>
    /\ currentLine' = currentLine + 1
    /\ ctl' = "loop"
    /\ UNCHANGED <<pvars, lines, callStack, forLoops, halted,
                   variables, arrays, reader, stdout, lineNum, work, result,
                   trace, steps, hvars, cvars>>

\* the loop test fails: Run returns nil
RunExit ==
    /\ ctl = "loop"
    /\ ~(currentLine < Len(lines) /\ ~halted)
    /\ ctl' = "done"
    /\ result' = Success
    /\ UNCHANGED <<pvars, evars, lineNum, work, trace, steps, hvars,
                   cvars>>

\* evalPrintStatement's loop from expression i on: the output and the error
\* a PRINT that ends its output with a newline whatever the statement says
RECURSIVE printLoopNewline(_, _, _, _, _)
printLoopNewline(stmt, i, out, env, arrs) ==
    IF i > Len(stmt.Expressions)
    THEN [out |-> Write(out, "\n"), err |-> ""]
    ELSE LET v == evalExpression(stmt.Expressions[i], env, arrs)
         IN  IF ~v.ok THEN [out |-> out, err |-> v.err]
             ELSE printLoopNewline(stmt, i + 1,
                      Write(Write(out, Inspect(v.val)),
                            IF i <= Len(stmt.Separators)
                            THEN stmt.Separators[i] ELSE ""),
                      env, arrs)

RECURSIVE printLoop(_, _, _, _, _)
printLoop(stmt, i, out, env, arrs) ==
    IF i > Len(stmt.Expressions)
    THEN [out |-> IF stmt.TrailingNewline THEN Write(out, "\n") ELSE out,
          err |-> ""]
    ELSE LET v == evalExpression(stmt.Expressions[i], env, arrs)
         IN  IF ~v.ok THEN [out |-> out, err |-> v.err]
             ELSE printLoop(stmt, i + 1,
                      Write(Write(out, Inspect(v.val)),
                            IF i <= Len(stmt.Separators)
                            THEN stmt.Separators[i] ELSE ""),
                      env, arrs)

evalPrintStatement ==
    /\ Dispatch("PrintStatement")
    /\ IF Len(Cur.Expressions) = 0
       THEN /\ stdout' = Write(stdout, "\n")
            /\ ReturnNil
       ELSE LET r == printLoop(Cur, 1, stdout, variables, arrays)
            IN  /\ stdout' = r.out
                /\ IF r.err # "" THEN ReturnErr(r.err) ELSE ReturnNil
    /\ NoTransfer
    /\ UNCHANGED <<currentLine, callStack, forLoops, halted, variables,
                   arrays, reader>>

evalLetStatement ==
    /\ Dispatch("LetStatement")
    /\ LET v == evalExpression(Cur.Value, variables, arrays)
       IN  IF ~v.ok
           THEN ReturnErr(v.err) /\ UNCHANGED variables
           ELSE variables' = MapSet(variables, Cur.Name, v.val) /\ ReturnNil
    /\ NoTransfer
    /\ UNCHANGED <<currentLine, callStack, forLoops, halted, arrays, reader,
                   stdout>>

evalIfStatement ==
    /\ Dispatch("IfStatement")
    /\ LET c == evalExpression(Cur.Condition, variables, arrays)
       IN  IF ~c.ok THEN ReturnErr(c.err)
           ELSE IF isTruthy(c.val)
           THEN work' = <<Cur.Consequence>> \o Rest /\ UNCHANGED <<ctl, result>>
           ELSE IF Cur.Alternative # Nil
           THEN work' = <<Cur.Alternative>> \o Rest /\ UNCHANGED <<ctl, result>>
           ELSE ReturnNil
    /\ NoTransfer
    /\ UNCHANGED evars

\* the index of the target itself
JumpIndexAtTarget(i) == i

\* e.currentLine = i - 1: what GOTO and GOSUB store for the target's index i
JumpIndex(i) == i - 1

evalGotoStatement ==
    /\ Dispatch("GotoStatement")
    /\ LET v == evalExpression(Cur.LineNumber, variables, arrays)
       IN  IF ~v.ok
           THEN ReturnErr(v.err) /\ UNCHANGED <<currentLine, transfers>>
           ELSE IF v.val.Type # "NUMBER"
           THEN /\ ReturnErr("GOTO requires a number")
                /\ UNCHANGED <<currentLine, transfers>>
           ELSE LET targetLine == GoInt(v.val.Num)
                    i == IndexOfLine(lines, targetLine)
                IN  IF i >= 0
                    THEN /\ currentLine' = JumpIndex(i)
                         /\ Transfer("GOTO", targetLine)
                         /\ ReturnNil
                    ELSE /\ ReturnErr("line " \o ToString(targetLine)
                                      \o " not found")
                         /\ UNCHANGED <<currentLine, transfers>>
    /\ UNCHANGED <<callStack, forLoops, halted, variables, arrays, reader,
                   stdout, callSites>>

\* a call stack one deep: the entry on top is overwritten
PushedOver(stack, pc) ==
    IF stack = <<>> THEN <<pc>> ELSE [stack EXCEPT ![Len(stack)] = pc]

\* append(e.callStack, e.currentLine)
Pushed(stack, pc) == Append(stack, pc)

evalGosubStatement ==
    /\ Dispatch("GosubStatement")
    /\ LET v == evalExpression(Cur.LineNumber, variables, arrays)
       IN  IF ~v.ok
           THEN /\ ReturnErr(v.err)
                /\ UNCHANGED <<currentLine, callStack, transfers, callSites>>
           ELSE IF v.val.Type # "NUMBER"
           THEN /\ ReturnErr("GOSUB requires a number")
                /\ UNCHANGED <<currentLine, callStack, transfers, callSites>>
           ELSE LET targetLine == GoInt(v.val.Num)
                    i == IndexOfLine(lines, targetLine)
                IN  /\ callStack' = Pushed(callStack, currentLine)
                    /\ callSites' = Append(callSites,
                                           [line |-> lineNum,
                                            first |-> transfers = <<>>])
                    /\ IF i >= 0
                       THEN /\ currentLine' = JumpIndex(i)
                            /\ Transfer("GOSUB", targetLine)
                            /\ ReturnNil
                       ELSE /\ ReturnErr("line " \o ToString(targetLine)
                                         \o " not found")
                            /\ UNCHANGED <<currentLine, transfers>>
    /\ UNCHANGED <<forLoops, halted, variables, arrays, reader, stdout>>

\* the index before the one popped
ResumeIndexBefore(top) == top - 1

\* e.currentLine = e.callStack[len(e.callStack)-1]
ResumeIndex(top) == top

\* RETURN that ends the run when there is nothing to return to
evalReturnStatementOrHalt ==
    /\ Dispatch("ReturnStatement")
    /\ IF Len(callStack) = 0
       THEN /\ halted' = TRUE
            /\ UNCHANGED <<currentLine, callStack, transfers, callSites>>
       ELSE /\ currentLine' = ResumeIndex(callStack[Len(callStack)])
            /\ callStack' = SubSeq(callStack, 1, Len(callStack) - 1)
            /\ transfers' = Append(transfers,
                                   [k |-> "RETURN",
                                    line |-> Last(callSites).line,
                                    first |-> Last(callSites).first])
            /\ callSites' = SubSeq(callSites, 1, Len(callSites) - 1)
            /\ UNCHANGED halted
    /\ ReturnNil
    /\ UNCHANGED <<forLoops, variables, arrays, reader, stdout>>

evalReturnStatement ==
    /\ Dispatch("ReturnStatement")
    /\ IF Len(callStack) = 0
       THEN /\ ReturnErr("RETURN without GOSUB")
            /\ UNCHANGED <<currentLine, callStack, transfers, callSites>>
       ELSE /\ currentLine' = ResumeIndex(callStack[Len(callStack)])
            /\ callStack' = SubSeq(callStack, 1, Len(callStack) - 1)
            /\ transfers' = Append(transfers,
                                   [k |-> "RETURN",
                                    line |-> Last(callSites).line,
                                    first |-> Last(callSites).first])
            /\ callSites' = SubSeq(callSites, 1, Len(callSites) - 1)
            /\ ReturnNil
    /\ UNCHANGED <<forLoops, halted, variables, arrays, reader, stdout>>

\* a FOR that tests on entry and passes over the body and the NEXT two
\* lines on when the start is past the end
evalForStatementTested ==
    /\ Dispatch("ForStatement")
    /\ LET startVal == evalExpression(Cur.Start, variables, arrays)
           endVal   == evalExpression(Cur.End, variables, arrays)
           stepVal  == evalExpression(Cur.Step, variables, arrays)
           failure  ==
               IF ~startVal.ok THEN startVal.err
               ELSE IF startVal.val.Type # "NUMBER"
               THEN "FOR start value must be a number"
               ELSE IF ~endVal.ok THEN endVal.err
               ELSE IF endVal.val.Type # "NUMBER"
               THEN "FOR end value must be a number"
               ELSE IF ~stepVal.ok THEN stepVal.err
               ELSE IF stepVal.val.Type # "NUMBER"
               THEN "FOR step value must be a number"
               ELSE ""
       IN  IF failure # ""
           THEN /\ ReturnErr(failure)
                /\ UNCHANGED <<variables, forLoops, currentLine>>
           ELSE IF (IF NumLt(Q(0), stepVal.val.Num)
                    THEN NumLt(endVal.val.Num, startVal.val.Num)
                    ELSE NumLt(startVal.val.Num, endVal.val.Num))
           THEN /\ variables' = MapSet(variables, Cur.Variable, startVal.val)
                /\ currentLine' = currentLine + 2
                /\ ReturnNil
                /\ UNCHANGED forLoops
           ELSE /\ variables' = MapSet(variables, Cur.Variable, startVal.val)
                /\ forLoops' = MapSet(forLoops, Cur.Variable,
                                  ForLoopState(Cur.Variable, endVal.val.Num,
                                               stepVal.val.Num, currentLine))
                /\ ReturnNil
                /\ UNCHANGED currentLine
    /\ NoTransfer
    /\ UNCHANGED <<callStack, halted, arrays, reader, stdout>>

\* a FOR that leaves the entry of a loop already open on its variable
evalForStatementKeep ==
    /\ Dispatch("ForStatement")
    /\ LET startVal == evalExpression(Cur.Start, variables, arrays)
           endVal   == evalExpression(Cur.End, variables, arrays)
           stepVal  == evalExpression(Cur.Step, variables, arrays)
           failure  ==
               IF ~startVal.ok THEN startVal.err
               ELSE IF startVal.val.Type # "NUMBER"
               THEN "FOR start value must be a number"
               ELSE IF ~endVal.ok THEN endVal.err
               ELSE IF endVal.val.Type # "NUMBER"
               THEN "FOR end value must be a number"
               ELSE IF ~stepVal.ok THEN stepVal.err
               ELSE IF stepVal.val.Type # "NUMBER"
               THEN "FOR step value must be a number"
               ELSE ""
       IN  IF failure # ""
           THEN ReturnErr(failure) /\ UNCHANGED <<variables, forLoops>>
           ELSE /\ variables' = MapSet(variables, Cur.Variable, startVal.val)
                /\ forLoops' =
                     IF Cur.Variable \in DOMAIN forLoops THEN forLoops
                     ELSE MapSet(forLoops, Cur.Variable,
                                 ForLoopState(Cur.Variable, endVal.val.Num,
                                              stepVal.val.Num, currentLine))
                /\ ReturnNil
    /\ NoTransfer
    /\ UNCHANGED <<currentLine, callStack, halted, arrays, reader, stdout>>

evalForStatement ==
    /\ Dispatch("ForStatement")
    /\ LET startVal == evalExpression(Cur.Start, variables, arrays)
           endVal   == evalExpression(Cur.End, variables, arrays)
           stepVal  == evalExpression(Cur.Step, variables, arrays)
           failure  ==
               IF ~startVal.ok THEN startVal.err
               ELSE IF startVal.val.Type # "NUMBER"
               THEN "FOR start value must be a number"
               ELSE IF ~endVal.ok THEN endVal.err
               ELSE IF endVal.val.Type # "NUMBER"
               THEN "FOR end value must be a number"
               ELSE IF ~stepVal.ok THEN stepVal.err
               ELSE IF stepVal.val.Type # "NUMBER"
               THEN "FOR step value must be a number"
               ELSE ""
       IN  IF failure # ""
           THEN ReturnErr(failure) /\ UNCHANGED <<variables, forLoops>>
           ELSE /\ variables' = MapSet(variables, Cur.Variable, startVal.val)
                /\ forLoops' = MapSet(forLoops, Cur.Variable,
                                  ForLoopState(Cur.Variable, endVal.val.Num,
                                               stepVal.val.Num, currentLine))
                /\ ReturnNil
    /\ NoTransfer
    /\ UNCHANGED <<currentLine, callStack, halted, arrays, reader, stdout>>

\* the loop goes on only while the new value has not reached the end
shouldContinueBeforeEnd(newVal, loopState) ==
    IF NumLt(Q(0), loopState.Step)
    THEN NumLt(newVal, loopState.End)
    ELSE NumLt(loopState.End, newVal)

\* the loop goes on while the new value is at most the end, whatever the step
shouldContinueUpward(newVal, loopState) == NumLe(newVal, loopState.End)

\* a step of zero counted among the positive ones
shouldContinueZeroUp(newVal, loopState) ==
    IF NumLe(Q(0), loopState.Step)
    THEN NumLe(newVal, loopState.End)
    ELSE NumLe(loopState.End, newVal)

\* evalNextStatement's shouldContinue
shouldContinue(newVal, loopState) ==
    IF NumLt(Q(0), loopState.Step)
    THEN NumLe(newVal, loopState.End)
    ELSE NumLe(loopState.End, newVal)

\* the loop state with the end and step its FOR would give now
LiveLoopState(loopState) ==
    IF loopState.StartLine < 0 THEN loopState
    ELSE Bind(program[LineAt(lines, loopState.StartLine)],
              LAMBDA for :
                IF for.k # "ForStatement" THEN loopState
                ELSE [loopState EXCEPT
                        !.End = evalExpression(for.End, variables,
                                               arrays).val.Num,
                        !.Step = evalExpression(for.Step, variables,
                                                arrays).val.Num])

\* a NEXT that evaluates the FOR's end and step anew
nextWithLive(varName) ==
    IF varName = ""
    THEN ReturnErr("NEXT without FOR")
         /\ UNCHANGED <<variables, forLoops, currentLine, transfers>>
    ELSE IF varName \notin DOMAIN forLoops
    THEN ReturnErr("NEXT without matching FOR")
         /\ UNCHANGED <<variables, forLoops, currentLine, transfers>>
    ELSE IF varName \notin DOMAIN variables
    THEN ReturnErr("loop variable " \o varName \o " not found")
         /\ UNCHANGED <<variables, forLoops, currentLine, transfers>>
    ELSE IF variables[varName].Type # "NUMBER"
    THEN ReturnErr("loop variable must be a number")
         /\ UNCHANGED <<variables, forLoops, currentLine, transfers>>
    ELSE LET loopState == LiveLoopState(forLoops[varName])
             newVal == NumAdd(variables[varName].Num, loopState.Step)
         IN  /\ IF shouldContinue(newVal, loopState)
                THEN /\ variables' = MapSet(variables, varName,
                                            NumberValue(newVal))
                     /\ currentLine' = loopState.StartLine
                     /\ transfers' =
                          Append(transfers,
                                 [k |-> "NEXT",
                                  line |-> LineAt(lines, loopState.StartLine),
                                  first |-> transfers = <<>>,
                                  v |-> varName])
                     /\ UNCHANGED forLoops
                ELSE /\ forLoops' = MapDelete(forLoops, varName)
                     /\ UNCHANGED <<variables, currentLine, transfers>>
             /\ ReturnNil

\* a NEXT that stores the new value also when it ends the loop
nextWithStore(varName) ==
    IF varName = ""
    THEN ReturnErr("NEXT without FOR")
         /\ UNCHANGED <<variables, forLoops, currentLine, transfers>>
    ELSE IF varName \notin DOMAIN forLoops
    THEN ReturnErr("NEXT without matching FOR")
         /\ UNCHANGED <<variables, forLoops, currentLine, transfers>>
    ELSE IF varName \notin DOMAIN variables
    THEN ReturnErr("loop variable " \o varName \o " not found")
         /\ UNCHANGED <<variables, forLoops, currentLine, transfers>>
    ELSE IF variables[varName].Type # "NUMBER"
    THEN ReturnErr("loop variable must be a number")
         /\ UNCHANGED <<variables, forLoops, currentLine, transfers>>
    ELSE LET loopState == forLoops[varName]
             newVal == NumAdd(variables[varName].Num, loopState.Step)
         IN  /\ IF shouldContinue(newVal, loopState)
                THEN /\ variables' = MapSet(variables, varName,
                                            NumberValue(newVal))
                     /\ currentLine' = loopState.StartLine
                     /\ transfers' =
                          Append(transfers,
                                 [k |-> "NEXT",
                                  line |-> LineAt(lines, loopState.StartLine),
                                  first |-> transfers = <<>>,
                                  v |-> varName])
                     /\ UNCHANGED forLoops
                ELSE /\ forLoops' = MapDelete(forLoops, varName)
                     /\ variables' = MapSet(variables, varName,
                                            NumberValue(newVal))
                     /\ UNCHANGED <<currentLine, transfers>>
             /\ ReturnNil

\* a NEXT that passes over a loop that is not open
nextWithSkip(varName) ==
    IF varName = ""
    THEN ReturnErr("NEXT without FOR")
         /\ UNCHANGED <<variables, forLoops, currentLine, transfers>>
    ELSE IF varName \notin DOMAIN forLoops
    THEN ReturnNil
         /\ UNCHANGED <<variables, forLoops, currentLine, transfers>>
    ELSE IF varName \notin DOMAIN variables
    THEN ReturnErr("loop variable " \o varName \o " not found")
         /\ UNCHANGED <<variables, forLoops, currentLine, transfers>>
    ELSE IF variables[varName].Type # "NUMBER"
    THEN ReturnErr("loop variable must be a number")
         /\ UNCHANGED <<variables, forLoops, currentLine, transfers>>
    ELSE LET loopState == forLoops[varName]
             newVal == NumAdd(variables[varName].Num, loopState.Step)
         IN  /\ IF shouldContinue(newVal, loopState)
                THEN /\ variables' = MapSet(variables, varName,
                                            NumberValue(newVal))
                     /\ currentLine' = loopState.StartLine
                     /\ transfers' =
                          Append(transfers,
                                 [k |-> "NEXT",
                                  line |-> LineAt(lines, loopState.StartLine),
                                  first |-> transfers = <<>>,
                                  v |-> varName])
                     /\ UNCHANGED forLoops
                ELSE /\ forLoops' = MapDelete(forLoops, varName)
                     /\ UNCHANGED <<variables, currentLine, transfers>>
             /\ ReturnNil

\* evalNextStatement once varName is chosen
nextWith(varName) ==
    IF varName = ""
    THEN ReturnErr("NEXT without FOR")
         /\ UNCHANGED <<variables, forLoops, currentLine, transfers>>
    ELSE IF varName \notin DOMAIN forLoops
    THEN ReturnErr("NEXT without matching FOR")
         /\ UNCHANGED <<variables, forLoops, currentLine, transfers>>
    ELSE IF varName \notin DOMAIN variables
    THEN ReturnErr("loop variable " \o varName \o " not found")
         /\ UNCHANGED <<variables, forLoops, currentLine, transfers>>
    ELSE IF variables[varName].Type # "NUMBER"
    THEN ReturnErr("loop variable must be a number")
         /\ UNCHANGED <<variables, forLoops, currentLine, transfers>>
    ELSE LET loopState == forLoops[varName]
             newVal == NumAdd(variables[varName].Num, loopState.Step)
         IN  /\ IF shouldContinue(newVal, loopState)
                THEN /\ variables' = MapSet(variables, varName,
                                            NumberValue(newVal))
                     /\ currentLine' = loopState.StartLine
                     /\ transfers' =
                          Append(transfers,
                                 [k |-> "NEXT",
                                  line |-> LineAt(lines, loopState.StartLine),
                                  first |-> transfers = <<>>,
                                  v |-> varName])
                     /\ UNCHANGED forLoops
                ELSE /\ forLoops' = MapDelete(forLoops, varName)
                     /\ UNCHANGED <<variables, currentLine, transfers>>
             /\ ReturnNil

\* a NEXT that takes I when it names no variable
evalNextStatementOnI ==
    /\ Dispatch("NextStatement")
    /\ IF Cur.Variable # ""
       THEN nextWith(Cur.Variable)
       ELSE IF DOMAIN forLoops = {}
       THEN nextWith("")
       ELSE nextWith("I")
    /\ UNCHANGED <<callStack, halted, arrays, reader, stdout, callSites>>

evalNextStatement ==
    /\ Dispatch("NextStatement")
    /\ IF Cur.Variable # ""
       THEN nextWith(Cur.Variable)
       ELSE IF DOMAIN forLoops = {}
       THEN nextWith("")
       ELSE \E name \in DOMAIN forLoops : nextWith(name)
    /\ UNCHANGED <<callStack, halted, arrays, reader, stdout, callSites>>

\* the variables after evalInputStatement's loop over stmt.Variables from i on
RECURSIVE inputLoop(_, _, _, _)
inputLoop(targets, i, values, env) ==
    IF i > Len(targets) THEN env
    ELSE IF i > Len(values)
    THEN inputLoop(targets, i + 1, values,
                   MapSet(env, targets[i], NumberValue(Q(0))))
    ELSE LET val == Join(TrimSpace(values[i]))
             num == ParseFloat(val)
         IN  inputLoop(targets, i + 1, values,
                 MapSet(env, targets[i],
                        IF num.ok THEN NumberValue(num.num)
                        ELSE StringValue(val)))

\* strings.HasSuffix(prompt, " ") on the prompts the model's programs use
HasSuffixSpace(prompt) == prompt \in {"? ", "N "}

\* the text INPUT prints for a prompt
PromptText(prompt) ==
    IF prompt = "" THEN ""
    ELSE IF HasSuffixSpace(prompt) THEN prompt ELSE prompt \o " "

evalInputStatement ==
    /\ Dispatch("InputStatement")
    /\ stdout' = Write(stdout, PromptText(Cur.Prompt))
    /\ IF reader = <<>>
       THEN ReturnErr("EOF") /\ UNCHANGED <<reader, variables>>
       ELSE /\ reader' = Tail(reader)
            /\ variables' = inputLoop(Cur.Variables, 1,
                                      Split(TrimSpace(Head(reader)), <<>>),
                                      variables)
            /\ ReturnNil
    /\ NoTransfer
    /\ UNCHANGED <<currentLine, callStack, forLoops, halted, arrays>>

evalEndStatement ==
    /\ Dispatch("EndStatement")
    /\ halted' = TRUE
    /\ ReturnNil
    /\ NoTransfer
    /\ UNCHANGED <<currentLine, callStack, forLoops, variables, arrays,
                   reader, stdout>>

evalRemStatement ==
    /\ Dispatch("RemStatement")
    /\ ReturnNil
    /\ NoTransfer
    /\ UNCHANGED evars

\* DIM that fills element 0 of the array it declares
evalDimStatementFilled ==
    /\ Dispatch("DimStatement")
    /\ LET sizeVal == evalExpression(Cur.Size, variables, arrays)
       IN  IF ~sizeVal.ok THEN ReturnErr(sizeVal.err) /\ UNCHANGED arrays
           ELSE IF sizeVal.val.Type # "NUMBER"
           THEN ReturnErr("DIM size must be a number") /\ UNCHANGED arrays
           ELSE /\ arrays' = MapSet(arrays, Cur.Name,
                                    MapSet(EmptyMap, 0, sizeVal.val))
                /\ ReturnNil
    /\ NoTransfer
    /\ UNCHANGED <<currentLine, callStack, forLoops, halted, variables,
                   reader, stdout>>

evalDimStatement ==
    /\ Dispatch("DimStatement")
    /\ LET sizeVal == evalExpression(Cur.Size, variables, arrays)
       IN  IF ~sizeVal.ok THEN ReturnErr(sizeVal.err) /\ UNCHANGED arrays
           ELSE IF sizeVal.val.Type # "NUMBER"
           THEN ReturnErr("DIM size must be a number") /\ UNCHANGED arrays
           ELSE arrays' = MapSet(arrays, Cur.Name, EmptyMap) /\ ReturnNil
    /\ NoTransfer
    /\ UNCHANGED <<currentLine, callStack, forLoops, halted, variables,
                   reader, stdout>>

evalExpressionStatement ==
    /\ Dispatch("ExpressionStatement")
    /\ LET v == evalExpression(Cur.Expression, variables, arrays)
       IN  IF ~v.ok THEN ReturnErr(v.err) ELSE ReturnNil
    /\ NoTransfer
    /\ UNCHANGED evars

evalSequenceStatement ==
    /\ Dispatch("SequenceStatement")
    /\ work' = Cur.Statements \o Rest
    /\ NoTransfer
    /\ UNCHANGED <<ctl, result, evars>>

(***************************************************************************)
(* compiler: the emitted Go text, kept as a list of instructions            *)
(*                                                                          *)
(* One instruction stands for one emitted Go statement (with the            *)
(* `if err != nil { return ... }' that follows it).  `form' is ":=" for a   *)
(* short variable declaration, "var" for a var declaration and "" for a     *)
(* statement that declares nothing; `decl' lists the names on its left and  *)
(* `use' the names it reads.                                                *)
(***************************************************************************)
Ins(op, form, decl, use) ==
    [op |-> op, form |-> form, decl |-> decl, use |-> use]

\* emitter.temp(): the name made from the incremented counter
TempName(c) == "tmp" \o ToString(c)

Emitted(code, c, val, err) == [code |-> code, c |-> c, val |-> val, err |-> err]

\* tmp := f(...): one instruction whose result the fresh temporary holds
EmitTemp(code, c, ins) ==
    Emitted(code \o <<ins @@ [dst |-> TempName(c + 1)]>>, c + 1,
            TempName(c + 1), "")

RECURSIVE emitExpression(_, _)
emitExpression(expr, c) ==
    CASE expr.k = "NumberLiteral" ->
            EmitTemp(<<>>, c,
                     Ins("numVal", ":=", <<TempName(c + 1)>>, <<>>)
                       @@ [num |-> expr.NumValue])
      [] expr.k = "StringLiteral" ->
            EmitTemp(<<>>, c,
                     Ins("strVal", ":=", <<TempName(c + 1)>>, <<>>)
                       @@ [str |-> expr.StrValue])
      [] expr.k = "Identifier" ->
            EmitTemp(<<>>, c,
                     Ins("get", ":=", <<TempName(c + 1)>>, <<>>)
                       @@ [name |-> expr.Name])
      [] expr.k = "InfixExpression" ->
            Bind(emitExpression(expr.Left, c), LAMBDA left :
            IF left.err # "" THEN left
            ELSE Bind(emitExpression(expr.Right, left.c), LAMBDA right :
            IF right.err # "" THEN right
            ELSE EmitTemp(left.code \o right.code, right.c,
                          Ins("applyInfix", ":=",
                              <<TempName(right.c + 1), "err">>,
                              <<left.val, right.val, "err">>)
                            @@ [oper |-> expr.Operator, left |-> left.val,
                                right |-> right.val])))
      [] expr.k = "PrefixExpression" ->
            Bind(emitExpression(expr.Right, c), LAMBDA right :
            IF right.err # "" THEN right
            ELSE EmitTemp(right.code, right.c,
                          Ins("applyPrefix", ":=",
                              <<TempName(right.c + 1), "err">>,
                              <<right.val, "err">>)
                            @@ [oper |-> expr.Operator, right |-> right.val]))
      [] expr.k = "ArrayAccess" ->
            Bind(emitExpression(expr.Index, c), LAMBDA index :
            IF index.err # "" THEN index
            ELSE EmitTemp(index.code, index.c,
                          Ins("arrayAccess", ":=",
                              <<TempName(index.c + 1), "err">>,
                              <<index.val, "err">>)
                            @@ [name |-> expr.Name, index |-> index.val]))
      [] OTHER -> Emitted(<<>>, c, "", "compiler: unsupported expression")

\* emitPrint's loop over stmt.Expressions from i on
RECURSIVE emitPrintLoop(_, _, _, _)
emitPrintLoop(stmt, i, code, c) ==
    IF i > Len(stmt.Expressions)
    THEN Emitted(code \o (IF stmt.TrailingNewline
                          THEN <<Ins("Println", "", <<>>, <<>>)>> ELSE <<>>),
                 c, "", "")
    ELSE Bind(emitExpression(stmt.Expressions[i], c), LAMBDA val :
         IF val.err # "" THEN val
         ELSE emitPrintLoop(stmt, i + 1,
                code \o val.code \o
                <<Ins("PrintInspect", "", <<>>, <<val.val>>)
                  @@ [src |-> val.val]>> \o
                (IF i <= Len(stmt.Separators)
                 THEN <<Ins("PrintStr", "", <<>>, <<>>)
                        @@ [str |-> stmt.Separators[i]]>>
                 ELSE <<>>),
                val.c))

emitPrint(stmt, c) ==
    IF Len(stmt.Expressions) = 0
    THEN Emitted(<<Ins("Println", "", <<>>, <<>>)>>, c, "", "")
    ELSE emitPrintLoop(stmt, 1, <<>>, c)

emitLet(stmt, c) ==
    Bind(emitExpression(stmt.Value, c), LAMBDA val :
    IF val.err # "" THEN val
    ELSE Emitted(val.code \o
                 <<Ins("set", "", <<>>, <<val.val>>)
                   @@ [name |-> stmt.Name, src |-> val.val]>>,
                 val.c, "", ""))

\* the lines emitGoto and emitGosub share: the target as an index idx
emitTarget(stmt, c, msg) ==
    Bind(emitExpression(stmt.LineNumber, c), LAMBDA targetVal :
    Bind(TempName(targetVal.c + 1), LAMBDA numVar :
    IF targetVal.err # "" THEN targetVal
    ELSE Emitted(targetVal.code \o
           <<Ins("mustNumber", ":=", <<numVar, "err">>,
                 <<targetVal.val, "err">>)
               @@ [dst |-> numVar, src |-> targetVal.val, msg |-> msg],
             Ins("lineNum", ":=", <<"lineNum">>, <<numVar>>)
               @@ [src |-> numVar],
             Ins("lineIndex", ":=", <<"idx", "ok">>, <<"lineNum", "ok">>)>>,
           targetVal.c + 1, "", "")))

emitGoto(stmt, c) ==
    Bind(emitTarget(stmt, c, "GOTO requires a number"), LAMBDA t :
    IF t.err # "" THEN t
    ELSE Emitted(t.code \o <<Ins("jump", "", <<>>, <<"idx">>)
                               @@ [kind |-> "GOTO"]>>,
                 t.c, "", ""))

emitGosub(stmt, c) ==
    Bind(emitTarget(stmt, c, "GOSUB requires a number"), LAMBDA t :
    IF t.err # "" THEN t
    ELSE Emitted(t.code \o <<Ins("push", "", <<>>, <<>>),
                             Ins("jump", "", <<>>, <<"idx">>)
                               @@ [kind |-> "GOSUB"]>>,
                 t.c, "", ""))

emitFor(stmt, c) ==
    Bind(emitExpression(stmt.Start, c), LAMBDA startVal :
    IF startVal.err # "" THEN startVal ELSE
    Bind(emitExpression(stmt.End, startVal.c), LAMBDA endVal :
    IF endVal.err # "" THEN endVal ELSE
    Bind(emitExpression(stmt.Step, endVal.c), LAMBDA stepVal :
    IF stepVal.err # "" THEN stepVal ELSE
    Bind(TempName(stepVal.c + 1), LAMBDA startNum :
    Bind(TempName(stepVal.c + 2), LAMBDA endNum :
    Bind(TempName(stepVal.c + 3), LAMBDA stepNum :
             Emitted(startVal.code \o endVal.code \o stepVal.code \o
               <<Ins("mustNumber", ":=", <<startNum, "err">>,
                     <<startVal.val, "err">>)
                   @@ [dst |-> startNum, src |-> startVal.val,
                       msg |-> "FOR start value must be a number"],
                 Ins("mustNumber", ":=", <<endNum, "err">>,
                     <<endVal.val, "err">>)
                   @@ [dst |-> endNum, src |-> endVal.val,
                       msg |-> "FOR end value must be a number"],
                 Ins("mustNumber", ":=", <<stepNum, "err">>,
                     <<stepVal.val, "err">>)
                   @@ [dst |-> stepNum, src |-> stepVal.val,
                       msg |-> "FOR step value must be a number"],
                 Ins("setNum", "", <<>>, <<startNum>>)
                   @@ [name |-> stmt.Variable, src |-> startNum],
                 Ins("forStore", "", <<>>, <<endNum, stepNum>>)
                   @@ [name |-> stmt.Variable, end |-> endNum,
                       step |-> stepNum]>>,
               stepVal.c + 3, "", "")))))))

emitNext(stmt, c) ==
    LET newVal == TempName(c + 1)
    IN  Emitted(
          <<IF stmt.Variable # ""
            THEN Ins("loopName", ":=", <<"loopName">>, <<>>)
                   @@ [name |-> stmt.Variable]
            ELSE Ins("loopNameAny", ":=", <<"loopName">>, <<>>),
            Ins("checkLoopName", "", <<>>, <<"loopName">>),
            Ins("loopState", ":=", <<"loopState", "ok">>, <<"loopName", "ok">>),
            Ins("loopVal", ":=", <<"val">>, <<"loopName", "val">>),
            Ins("newVal", ":=", <<newVal>>, <<"val", "loopState">>)
              @@ [dst |-> newVal],
            Ins("shouldContinue", ":=", <<"shouldContinue">>,
                <<"loopState", newVal>>) @@ [src |-> newVal],
            Ins("nextApply", "", <<>>,
                <<"shouldContinue", "loopName", newVal, "loopState">>)
              @@ [src |-> newVal]>>,
          c + 1, "", "")

\* emitInput's loop over stmt.Variables from i on
RECURSIVE emitInputLoop(_, _, _, _)
emitInputLoop(stmt, i, code, c) ==
    IF i > Len(stmt.Variables) THEN Emitted(code, c, "", "")
    ELSE LET valVar == TempName(c + 1)
         IN  emitInputLoop(stmt, i + 1,
               code \o
               <<Ins("inputVar", "var", <<valVar>>, <<"parts">>)
                   @@ [dst |-> valVar, index |-> i - 1],
                 Ins("set", "", <<>>, <<valVar>>)
                   @@ [name |-> stmt.Variables[i], src |-> valVar]>>,
               c + 1)

emitInput(stmt, c) ==
    emitInputLoop(stmt, 1,
        (IF stmt.Prompt # ""
         THEN <<Ins("PrintStr", "", <<>>, <<>>) @@ [str |-> stmt.Prompt]>> \o
              (IF ~HasSuffixSpace(stmt.Prompt)
               THEN <<Ins("PrintStr", "", <<>>, <<>>) @@ [str |-> " "]>>
               ELSE <<>>)
         ELSE <<>>) \o
        <<Ins("readLine", ":=", <<"line", "err">>, <<"err", "line">>),
          Ins("parts", ":=", <<"parts">>, <<"line">>)>>,
        c)

RECURSIVE emitStatement(_, _)

\* emitStatement's loop over the statements of a SequenceStatement
RECURSIVE emitSequenceLoop(_, _, _, _)
emitSequenceLoop(stmts, i, code, c) ==
    IF i > Len(stmts) THEN Emitted(code, c, "", "")
    ELSE Bind(emitStatement(stmts[i], c), LAMBDA inner :
         IF inner.err # "" THEN inner
         ELSE emitSequenceLoop(stmts, i + 1, code \o inner.code, inner.c))

emitIf(stmt, c) ==
    Bind(emitExpression(stmt.Condition, c), LAMBDA cond :
    IF cond.err # "" THEN cond ELSE
    Bind(emitStatement(stmt.Consequence, cond.c), LAMBDA cons :
    IF cons.err # "" THEN cons ELSE
    Bind(IF stmt.Alternative # Nil
         THEN emitStatement(stmt.Alternative, cons.c)
         ELSE Emitted(<<>>, cons.c, "", ""), LAMBDA alt :
    IF alt.err # "" THEN alt
    ELSE Emitted(cond.code \o
                 <<Ins("if", "", <<>>, <<cond.val>>)
                   @@ [cond |-> cond.val, then |-> cons.code,
                       else |-> alt.code]>>,
                 alt.c, "", ""))))

emitStatement(stmt, c) ==
    CASE stmt.k = "PrintStatement"  -> emitPrint(stmt, c)
      [] stmt.k = "LetStatement"    -> emitLet(stmt, c)
      [] stmt.k = "IfStatement"     -> emitIf(stmt, c)
      [] stmt.k = "GotoStatement"   -> emitGoto(stmt, c)
      [] stmt.k = "GosubStatement"  -> emitGosub(stmt, c)
      [] stmt.k = "ReturnStatement" ->
            Emitted(<<Ins("return", "", <<>>, <<>>)>>, c, "", "")
      [] stmt.k = "ForStatement"    -> emitFor(stmt, c)
      [] stmt.k = "NextStatement"   -> emitNext(stmt, c)
      [] stmt.k = "InputStatement"  -> emitInput(stmt, c)
      [] stmt.k = "EndStatement"    ->
            Emitted(<<Ins("halt", "", <<>>, <<>>)>>, c, "", "")
      [] stmt.k = "RemStatement"    -> Emitted(<<>>, c, "", "")
      [] stmt.k = "DimStatement"    ->
            Emitted(<<Ins("ensureArray", "", <<>>, <<>>)
                      @@ [name |-> stmt.Name]>>, c, "", "")
      [] stmt.k = "ExpressionStatement" ->
            Bind(emitExpression(stmt.Expression, c), LAMBDA val :
            IF val.err # "" THEN val
            ELSE Emitted(val.code \o
                         <<Ins("discard", "", <<>>, <<val.val>>)
                           @@ [src |-> val.val]>>,
                         val.c, "", ""))
      [] stmt.k = "SequenceStatement" ->
            emitSequenceLoop(stmt.Statements, 1, <<>>, c)
      [] OTHER -> Emitted(<<>>, c, "", "compiler: unsupported statement")

\* Compile's loop over the sorted lines from i on: the case blocks emitted
RECURSIVE compileLoop(_, _, _, _, _)
compileLoop(prog, ls, i, cases, c) ==
    IF i > Len(ls) THEN [err |-> "", cases |-> cases]
    ELSE Bind(emitStatement(prog[ls[i]], c), LAMBDA e :
         IF e.err # "" THEN [err |-> e.err, cases |-> <<>>]
         ELSE compileLoop(prog, ls, i + 1, Append(cases, e.code), e.c))

\* Compile(program): programLines and, per line, the block of its case
Compile(prog) ==
    Bind(SortInts(DOMAIN prog), LAMBDA ls :
    Bind(compileLoop(prog, ls, 1, <<>>, 0), LAMBDA r :
    [err |-> r.err, programLines |-> ls, cases |-> r.cases]))

(***************************************************************************)
(* What the Go compiler accepts of an emitted block                         *)
(***************************************************************************)
Range(f) == {f[i] : i \in DOMAIN f}

RECURSIVE BlockUses(_, _)
\* the instruction reads the variable `name'
InsUses(ins, name) ==
    \/ name \in Range(ins.use)
    \/ /\ ins.op = "if"
       /\ BlockUses(ins.then, name) \/ BlockUses(ins.else, name)

BlockUses(block, name) == \E i \in 1..Len(block) : InsUses(block[i], name)

\* the names the block has declared before its i-th instruction
DeclaredBefore(block, i) == UNION {Range(block[j].decl) : j \in 1..(i - 1)}

\* a := declares a new name and a var declaration no name declared already
NoRedeclaration(block) ==
    \A i \in 1..Len(block) :
        /\ block[i].form = ":=" =>
              Range(block[i].decl) \ DeclaredBefore(block, i) # {}
        /\ block[i].form = "var" =>
              Range(block[i].decl) \cap DeclaredBefore(block, i) = {}

\* every name a block declares is read at or after its declaration
NoUnusedName(block) ==
    \A i \in 1..Len(block) :
        \A name \in Range(block[i].decl) \ DeclaredBefore(block, i) :
            \E j \in i..Len(block) : InsUses(block[j], name)

RECURSIVE ValidBlock(_)
ValidBlock(block) ==
    /\ NoRedeclaration(block)
    /\ NoUnusedName(block)
    /\ \A i \in 1..Len(block) :
          block[i].op = "if" =>
              ValidBlock(block[i].then) /\ ValidBlock(block[i].else)

\* the emitted source builds
ValidGo(src) == \A i \in 1..Len(src.cases) : ValidBlock(src.cases[i])

(***************************************************************************)
(* runtimeHelpers: the runtime the emitted program carries                  *)
(***************************************************************************)
numVal(v) == [kind |-> "number", num |-> v, str |-> ""]
strVal(s) == [kind |-> "string", num |-> Q(0), str |-> s]

isNumber(v) == v.kind = "number"
inspect(v)  == IF v.kind = "number" THEN FormatG(v.num) ELSE v.str
truthy(v)   == IF v.kind = "number" THEN ~NumIsZero(v.num) ELSE v.str # ""

envGet(env, name) == IF name \in DOMAIN env THEN env[name] ELSE numVal(Q(0))

ensureArray(arrs, name) ==
    IF name \in DOMAIN arrs THEN arrs ELSE MapSet(arrs, name, EmptyMap)

GoOk(v)    == [ok |-> TRUE, val |-> v, err |-> ""]
GoErr(msg) == [ok |-> FALSE, val |-> numVal(Q(0)), err |-> msg]
goBool(b)  == numVal(IF b THEN Q(1) ELSE Q(0))

applyPrefix(op, right) ==
    CASE op = "-" -> IF ~isNumber(right) THEN GoErr("cannot negate non-number")
                     ELSE GoOk(numVal(NumNeg(right.num)))
      [] op = "NOT" -> GoOk(goBool(~truthy(right)))
      [] OTHER -> GoErr("unknown operator: " \o op)

applyInfix(op, left, right) ==
    IF isNumber(left) /\ isNumber(right)
       /\ op \in {"+", "-", "*", "/", "MOD", "<", ">", "<=", ">=", "==", "<>",
                  "AND", "OR"}
    THEN LET a == left.num
             b == right.num
         IN  CASE op = "+" -> GoOk(numVal(NumAdd(a, b)))
               [] op = "-" -> GoOk(numVal(NumSub(a, b)))
               [] op = "*" -> GoOk(numVal(NumMul(a, b)))
               [] op = "/" -> IF NumIsZero(b) THEN GoErr("division by zero")
                              ELSE GoOk(numVal(NumDiv(a, b)))
               [] op = "MOD" -> GoOk(numVal(NumMod(a, b)))
               [] op = "<"  -> GoOk(goBool(NumLt(a, b)))
               [] op = ">"  -> GoOk(goBool(NumLt(b, a)))
               [] op = "<=" -> GoOk(goBool(NumLe(a, b)))
               [] op = ">=" -> GoOk(goBool(NumLe(b, a)))
               [] op = "==" -> GoOk(goBool(NumEq(a, b)))
               [] op = "<>" -> GoOk(goBool(~NumEq(a, b)))
               [] op = "AND" -> GoOk(goBool(truthy(left) /\ truthy(right)))
               [] op = "OR"  -> GoOk(goBool(truthy(left) \/ truthy(right)))
    ELSE IF left.kind = "string" /\ right.kind = "string"
            /\ op \in {"+", "==", "<>"}
    THEN CASE op = "+"  -> GoOk(strVal(left.str \o right.str))
           [] op = "==" -> GoOk(goBool(left.str = right.str))
           [] op = "<>" -> GoOk(goBool(left.str # right.str))
    ELSE GoErr("unsupported operation: " \o inspect(left) \o " " \o op \o " "
               \o inspect(right))

arrayAccess(arrs, name, index) ==
    IF name \notin DOMAIN arrs THEN GoErr("array " \o name \o " not defined")
    ELSE IF ~isNumber(index) THEN GoErr("array index must be a number")
    ELSE IF GoInt(index.num) \in DOMAIN arrs[name]
    THEN GoOk(arrs[name][GoInt(index.num)])
    ELSE GoOk(numVal(Q(0)))

(***************************************************************************)
(* The emitted program: executing the instructions of a case block          *)
(*                                                                          *)
(* A state g of run() carries pc, callStack, forLoops, halted, the env      *)
(* (vars, arrays, reader), stdout, the block's local variables and, once a  *)
(* `return' has executed, returned = TRUE with the error in err.            *)
(***************************************************************************)
Local(g, name, v) == [g EXCEPT !.locals = MapSet(g.locals, name, v)]
ReturnError(g, msg) == [g EXCEPT !.returned = TRUE, !.err = msg]
\* tmp, err := f(...); if err != nil { return err }
LocalOrReturn(g, name, r) ==
    IF r.ok THEN Local(g, name, r.val) ELSE ReturnError(g, r.err)

RECURSIVE ExecBlock(_, _, _)

\* the states one instruction can leave, lineIdx being the lineIndex map
ExecIns(ins, g, programLines) ==
    LET L == g.locals
    IN
    CASE ins.op = "numVal" -> {Local(g, ins.dst, numVal(ins.num))}
      [] ins.op = "strVal" -> {Local(g, ins.dst, strVal(ins.str))}
      [] ins.op = "get"    -> {Local(g, ins.dst, envGet(g.vars, ins.name))}
      [] ins.op = "applyInfix" ->
            {LocalOrReturn(g, ins.dst,
                           applyInfix(ins.oper, L[ins.left], L[ins.right]))}
      [] ins.op = "applyPrefix" ->
            {LocalOrReturn(g, ins.dst, applyPrefix(ins.oper, L[ins.right]))}
      [] ins.op = "arrayAccess" ->
            {LocalOrReturn(g, ins.dst,
                           arrayAccess(g.arrays, ins.name, L[ins.index]))}
      [] ins.op = "Println" -> {[g EXCEPT !.stdout = Write(@, "\n")]}
      [] ins.op = "PrintInspect" ->
            {[g EXCEPT !.stdout = Write(@, inspect(L[ins.src]))]}
      [] ins.op = "PrintStr" -> {[g EXCEPT !.stdout = Write(@, ins.str)]}
      [] ins.op = "set" ->
            {[g EXCEPT !.vars = MapSet(@, ins.name, L[ins.src])]}
      [] ins.op = "if" ->
            IF truthy(L[ins.cond])
            THEN ExecBlock(ins.then, {g}, programLines)
            ELSE ExecBlock(ins.else, {g}, programLines)
      [] ins.op = "mustNumber" ->
            {IF isNumber(L[ins.src]) THEN Local(g, ins.dst, L[ins.src].num)
             ELSE ReturnError(g, ins.msg)}
      [] ins.op = "lineNum" -> {Local(g, "lineNum", GoInt(L[ins.src]))}
      [] ins.op = "lineIndex" ->
            LET idx == IndexOfLine(programLines, L["lineNum"])
            IN  {IF idx >= 0 THEN Local(g, "idx", idx)
                 ELSE ReturnError(g, "line " \o ToString(L["lineNum"])
                                     \o " not found")}
      [] ins.op = "push" -> {[g EXCEPT !.callStack = Append(@, g.pc)]}
      [] ins.op = "jump" ->
            {[g EXCEPT !.pc = L["idx"] - 1,
                       !.transfers = Append(@, [k |-> ins.kind,
                                                line |-> L["lineNum"]])]}
      [] ins.op = "return" ->
            {IF Len(g.callStack) = 0
             THEN ReturnError(g, "RETURN without GOSUB")
             ELSE [g EXCEPT !.pc = g.callStack[Len(g.callStack)],
                            !.callStack = SubSeq(@, 1, Len(@) - 1),
                            !.transfers =
                                Append(@, [k |-> "RETURN",
                                           line |->
                                             LineAt(programLines,
                                                    g.callStack[
                                                      Len(g.callStack)])])]}
      [] ins.op = "setNum" ->
            {[g EXCEPT !.vars = MapSet(@, ins.name, numVal(L[ins.src]))]}
      [] ins.op = "forStore" ->
            {[g EXCEPT !.forLoops =
                MapSet(@, ins.name, [End |-> L[ins.end], Step |-> L[ins.step],
                                     StartPC |-> g.pc])]}
      [] ins.op = "loopName" -> {Local(g, "loopName", ins.name)}
      [] ins.op = "loopNameAny" ->
            IF DOMAIN g.forLoops = {} THEN {Local(g, "loopName", "")}
            ELSE {Local(g, "loopName", name) : name \in DOMAIN g.forLoops}
      [] ins.op = "checkLoopName" ->
            {IF L["loopName"] = "" THEN ReturnError(g, "NEXT without FOR")
             ELSE g}
      [] ins.op = "loopState" ->
            {IF L["loopName"] \in DOMAIN g.forLoops
             THEN Local(g, "loopState", g.forLoops[L["loopName"]])
             ELSE ReturnError(g, "NEXT without matching FOR")}
      [] ins.op = "loopVal" ->
            LET val == envGet(g.vars, L["loopName"])
            IN  {IF isNumber(val) THEN Local(g, "val", val)
                 ELSE ReturnError(g, "loop variable must be a number")}
      [] ins.op = "newVal" ->
            {Local(g, ins.dst, NumAdd(L["val"].num, L["loopState"].Step))}
      [] ins.op = "shouldContinue" ->
            {Local(g, "shouldContinue",
                   IF NumLt(Q(0), L["loopState"].Step)
                   THEN NumLe(L[ins.src], L["loopState"].End)
                   ELSE NumLe(L["loopState"].End, L[ins.src]))}
      [] ins.op = "nextApply" ->
            {IF L["shouldContinue"]
             THEN [g EXCEPT !.vars = MapSet(@, L["loopName"],
                                            numVal(L[ins.src])),
                            !.pc = L["loopState"].StartPC,
                            !.transfers =
                                Append(@, [k |-> "NEXT",
                                           line |->
                                             LineAt(programLines,
                                                    L["loopState"].StartPC)])]
             ELSE [g EXCEPT !.forLoops = MapDelete(@, L["loopName"])]}
      [] ins.op = "readLine" ->
            {IF g.reader = <<>> THEN ReturnError(g, "EOF")
             ELSE [Local(g, "line", Head(g.reader))
                      EXCEPT !.reader = Tail(g.reader)]}
      [] ins.op = "parts" ->
            {Local(g, "parts", Split(TrimSpace(L["line"]), <<>>))}
      [] ins.op = "inputVar" ->
            {Local(g, ins.dst,
                IF Len(L["parts"]) > ins.index
                THEN LET text == Join(TrimSpace(L["parts"][ins.index + 1]))
                         num  == ParseFloat(text)
                     IN  IF num.ok THEN numVal(num.num) ELSE strVal(text)
                ELSE numVal(Q(0)))}
      [] ins.op = "halt" -> {[g EXCEPT !.halted = TRUE]}
      [] ins.op = "ensureArray" ->
            {[g EXCEPT !.arrays = ensureArray(@, ins.name)]}
      [] ins.op = "discard" -> {g}

\* the states the block can leave when entered in a state of G
ExecBlock(block, G, programLines) ==
    IF block = <<>> THEN G
    ELSE ExecBlock(Tail(block),
                   UNION {IF g.returned THEN {g}
                          ELSE ExecIns(Head(block), g, programLines) : g \in G},
                   programLines)

(***************************************************************************)
(* token and parser                                                         *)
(*                                                                          *)
(* A source is the sequence of tokens the lexer yields for it, the final    *)
(* EOF left out (NextToken yields EOF for ever at the end of the input).    *)
(* The parser is the pair p = [pos, errors]: curToken is the token at pos,  *)
(* peekToken the one after it.  A parse function yields the node and the    *)
(* parser it leaves.                                                        *)
(***************************************************************************)
Token(type, literal) == [Type |-> type, Literal |-> literal]

EOFToken == Token("EOF", "")

TokenAt(toks, i) == IF i <= Len(toks) THEN toks[i] ELSE EOFToken
curToken(toks, p)  == TokenAt(toks, p.pos)
peekToken(toks, p) == TokenAt(toks, p.pos + 1)
curTokenIs(toks, p, t)  == curToken(toks, p).Type = t
peekTokenIs(toks, p, t) == peekToken(toks, p).Type = t
nextToken(p) == [p EXCEPT !.pos = @ + 1]
addError(p, msg) == [p EXCEPT !.errors = Append(@, msg)]

Parsed(node, p) == [node |-> node, p |-> p]

LOWEST      == 1
LOGICAL     == 2
EQUALS      == 3
LESSGREATER == 4
SUM         == 5
PRODUCT     == 6
PREFIX      == 7
CALL        == 8

\* a table that puts * on the level of + and -
precedencesTimesAsSum(type) ==
    CASE type \in {"OR", "AND"} -> LOGICAL
      [] type \in {"==", "<>"} -> EQUALS
      [] type \in {"<", ">", "<=", ">="} -> LESSGREATER
      [] type \in {"+", "-", "*"} -> SUM
      [] type \in {"/", "MOD"} -> PRODUCT
      [] type = "(" -> CALL
      [] OTHER -> LOWEST

precedences(type) ==
    CASE type \in {"OR", "AND"} -> LOGICAL
      [] type \in {"==", "<>"} -> EQUALS
      [] type \in {"<", ">", "<=", ">="} -> LESSGREATER
      [] type \in {"+", "-"} -> SUM
      [] type \in {"/", "*", "MOD"} -> PRODUCT
      [] type = "(" -> CALL
      [] OTHER -> LOWEST

peekPrecedence(toks, p) == precedences(peekToken(toks, p).Type)
curPrecedence(toks, p)  == precedences(curToken(toks, p).Type)

peekError(toks, p, t) ==
    addError(p, "expected next token to be " \o t \o ", got "
                \o peekToken(toks, p).Type \o " instead")

\* expectPeek(t): ok and the parser it leaves
expectPeek(toks, p, t) ==
    IF peekTokenIs(toks, p, t) THEN [ok |-> TRUE, p |-> nextToken(p)]
    ELSE [ok |-> FALSE, p |-> peekError(toks, p, t)]

noPrefixParseFnError(p, t) ==
    addError(p, "no prefix parse function for " \o t \o " found")

EndsStatement(type) == type \in {"EOF", "NEWLINE", ":"}

RECURSIVE parseExpression(_, _, _)

parseNumberLiteral(toks, p) ==
    LET value == ParseFloat(curToken(toks, p).Literal)
    IN  IF ~value.ok
        THEN Parsed(Nil, addError(p, "could not parse "
                                     \o curToken(toks, p).Literal
                                     \o " as number"))
        ELSE Parsed(NumberLiteral(value.num), p)

parsePrefixExpression(toks, p) ==
    Bind(parseExpression(toks, nextToken(p), PREFIX), LAMBDA right :
    Parsed(PrefixExpression(curToken(toks, p).Literal, right.node), right.p))

parseInfixExpression(toks, p, left) ==
    Bind(parseExpression(toks, nextToken(p), curPrecedence(toks, p)),
         LAMBDA right :
    Parsed(InfixExpression(curToken(toks, p).Literal, left, right.node),
           right.p))

parseGroupedExpression(toks, p) ==
    Bind(parseExpression(toks, nextToken(p), LOWEST), LAMBDA exp :
    Bind(expectPeek(toks, exp.p, ")"), LAMBDA e :
    IF ~e.ok THEN Parsed(Nil, e.p) ELSE Parsed(exp.node, e.p)))

parseArrayAccess(toks, p, left) ==
    IF left.k # "Identifier" THEN Parsed(Nil, p)
    ELSE Bind(parseExpression(toks, nextToken(p), LOWEST), LAMBDA index :
         Bind(expectPeek(toks, index.p, ")"), LAMBDA e :
         IF ~e.ok THEN Parsed(Nil, e.p)
         ELSE Parsed(ArrayAccess(left.Name, index.node), e.p)))

\* parseExpression's loop over the infix operators that follow leftExp
RECURSIVE infixLoop(_, _, _, _)
infixLoop(toks, p, precedence, leftExp) ==
    IF /\ ~EndsStatement(peekToken(toks, p).Type)
       /\ precedence < peekPrecedence(toks, p)
    THEN Bind(IF curTokenIs(toks, nextToken(p), "(")
              THEN parseArrayAccess(toks, nextToken(p), leftExp)
              ELSE parseInfixExpression(toks, nextToken(p), leftExp),
              LAMBDA r : infixLoop(toks, r.p, precedence, r.node))
    ELSE Parsed(leftExp, p)

parseExpression(toks, p, precedence) ==
    LET type == curToken(toks, p).Type
    IN  IF type \notin {"IDENT", "NUMBER", "STRING", "-", "NOT", "("}
        THEN Parsed(Nil, noPrefixParseFnError(p, type))
        ELSE Bind(CASE type = "IDENT" ->
                         Parsed(Identifier(curToken(toks, p).Literal), p)
                    [] type = "NUMBER" -> parseNumberLiteral(toks, p)
                    [] type = "STRING" ->
                         Parsed(StringLiteral(curToken(toks, p).Literal), p)
                    [] type \in {"-", "NOT"} -> parsePrefixExpression(toks, p)
                    [] type = "(" -> parseGroupedExpression(toks, p),
                  LAMBDA leftExp :
                  infixLoop(toks, leftExp.p, precedence, leftExp.node))

\* parseRemStatement's loop: the comment and the parser at the terminator
RECURSIVE remLoop(_, _, _)
remLoop(toks, p, comment) ==
    IF EndsStatement(curToken(toks, p).Type)
    THEN Parsed(RemStatement(comment), p)
    ELSE remLoop(toks, nextToken(p),
                 comment \o curToken(toks, p).Literal \o " ")

parseRemStatement(toks, p) == remLoop(toks, nextToken(p), "")

parseDimStatement(toks, p) ==
    Bind(expectPeek(toks, p, "IDENT"), LAMBDA e1 :
    IF ~e1.ok THEN Parsed(TypedNil("DimStatement"), e1.p)
    ELSE Bind(expectPeek(toks, e1.p, "("), LAMBDA e2 :
    IF ~e2.ok THEN Parsed(TypedNil("DimStatement"), e2.p)
    ELSE Bind(parseExpression(toks, nextToken(e2.p), LOWEST), LAMBDA size :
    Bind(expectPeek(toks, size.p, ")"), LAMBDA e3 :
    IF ~e3.ok THEN Parsed(TypedNil("DimStatement"), e3.p)
    ELSE Parsed(DimStatement(curToken(toks, e1.p).Literal, size.node),
                e3.p)))))

parseLetStatement(toks, p) ==
    Bind(expectPeek(toks, p, "IDENT"), LAMBDA e1 :
    IF ~e1.ok THEN Parsed(TypedNil("LetStatement"), e1.p)
    ELSE Bind(expectPeek(toks, e1.p, "="), LAMBDA e2 :
    IF ~e2.ok THEN Parsed(TypedNil("LetStatement"), e2.p)
    ELSE Bind(parseExpression(toks, nextToken(e2.p), LOWEST), LAMBDA value :
    Parsed(LetStatement(curToken(toks, e1.p).Literal, value.node),
           value.p))))

parseGotoStatement(toks, p) ==
    Bind(parseExpression(toks, nextToken(p), LOWEST), LAMBDA e :
    Parsed(GotoStatement(e.node), e.p))

parseGosubStatement(toks, p) ==
    Bind(parseExpression(toks, nextToken(p), LOWEST), LAMBDA e :
    Parsed(GosubStatement(e.node), e.p))

\* parsePrintStatement's loop, cur being the first token of an expression
RECURSIVE printItems(_, _, _)
printItems(toks, p, stmt) ==
    Bind(parseExpression(toks, p, LOWEST), LAMBDA expr :
    Bind(IF expr.node # Nil THEN Append(stmt.Expressions, expr.node)
         ELSE stmt.Expressions, LAMBDA exprs :
    Bind(peekToken(toks, expr.p).Type, LAMBDA sep :
    Bind(nextToken(expr.p), LAMBDA q :
    Bind(Append(stmt.Separators, IF sep = ";" THEN "" ELSE "\t"),
         LAMBDA seps :
    IF sep \in {";", ","}
    THEN IF EndsStatement(peekToken(toks, q).Type)
         THEN Parsed(PrintStatement(exprs, seps, FALSE), q)
         ELSE printItems(toks, nextToken(q), PrintStatement(exprs, seps, TRUE))
    ELSE Parsed(PrintStatement(exprs, stmt.Separators, TRUE), expr.p))))))

parsePrintStatement(toks, p) ==
    LET q == nextToken(p)
    IN  IF EndsStatement(curToken(toks, q).Type)
        THEN Parsed(PrintStatement(<<>>, <<>>, TRUE), q)
        ELSE printItems(toks, q, PrintStatement(<<>>, <<>>, TRUE))

parseForStatement(toks, p) ==
    Bind(expectPeek(toks, p, "IDENT"), LAMBDA e1 :
    IF ~e1.ok THEN Parsed(TypedNil("ForStatement"), e1.p)
    ELSE Bind(expectPeek(toks, e1.p, "="), LAMBDA e2 :
    IF ~e2.ok THEN Parsed(TypedNil("ForStatement"), e2.p)
    ELSE Bind(parseExpression(toks, nextToken(e2.p), LOWEST), LAMBDA start :
    Bind(expectPeek(toks, start.p, "TO"), LAMBDA e3 :
    IF ~e3.ok THEN Parsed(TypedNil("ForStatement"), e3.p)
    ELSE Bind(parseExpression(toks, nextToken(e3.p), LOWEST), LAMBDA end :
    Bind(IF peekTokenIs(toks, end.p, "STEP")
         THEN parseExpression(toks, nextToken(nextToken(end.p)), LOWEST)
         ELSE Parsed(NumberLiteral(Q(1)), end.p), LAMBDA step :
    Parsed(ForStatement(curToken(toks, e1.p).Literal, start.node, end.node,
                        step.node),
           step.p)))))))

parseNextStatement(toks, p) ==
    IF peekTokenIs(toks, p, "IDENT")
    THEN Parsed(NextStatement(peekToken(toks, p).Literal), nextToken(p))
    ELSE Parsed(NextStatement(""), p)

\* parseInputStatement's loop over the target identifiers
RECURSIVE inputTargets(_, _, _, _)
inputTargets(toks, p, prompt, targets) ==
    IF ~curTokenIs(toks, p, "IDENT")
    THEN Parsed(InputStatement(prompt, targets), p)
    ELSE Bind(Append(targets, curToken(toks, p).Literal), LAMBDA more :
         IF ~peekTokenIs(toks, p, ",")
         THEN Parsed(InputStatement(prompt, more), p)
         ELSE inputTargets(toks, nextToken(nextToken(p)), prompt, more))

parseInputStatement(toks, p) ==
    LET q == nextToken(p)
    IN  IF curTokenIs(toks, q, "STRING")
        THEN Bind(expectPeek(toks, q, ";"), LAMBDA e1 :
             Bind(IF e1.ok THEN e1 ELSE expectPeek(toks, e1.p, ","),
                  LAMBDA after :
             IF ~after.ok THEN Parsed(TypedNil("InputStatement"), after.p)
             ELSE inputTargets(toks, nextToken(after.p),
                               curToken(toks, q).Literal, <<>>)))
        ELSE inputTargets(toks, q, "", <<>>)

RECURSIVE parseStatement(_, _)
RECURSIVE parseSingleStatement(_, _)

\* an IF whose branches are one statement each
parseIfStatementSingle(toks, p) ==
    Bind(parseExpression(toks, nextToken(p), LOWEST), LAMBDA cond :
    Bind(expectPeek(toks, cond.p, "THEN"), LAMBDA e :
    IF ~e.ok THEN Parsed(TypedNil("IfStatement"), e.p)
    ELSE Bind(parseSingleStatement(toks, nextToken(e.p)), LAMBDA cons :
    Bind(IF peekTokenIs(toks, cons.p, "ELSE")
         THEN parseSingleStatement(toks, nextToken(nextToken(cons.p)))
         ELSE Parsed(Nil, cons.p), LAMBDA alt :
    Parsed(IfStatement(cond.node, cons.node, alt.node), alt.p)))))

parseIfStatement(toks, p) ==
    Bind(parseExpression(toks, nextToken(p), LOWEST), LAMBDA cond :
    Bind(expectPeek(toks, cond.p, "THEN"), LAMBDA e :
    IF ~e.ok THEN Parsed(TypedNil("IfStatement"), e.p)
    ELSE Bind(parseStatement(toks, nextToken(e.p)), LAMBDA cons :
    Bind(IF peekTokenIs(toks, cons.p, "ELSE")
         THEN parseStatement(toks, nextToken(nextToken(cons.p)))
         ELSE Parsed(Nil, cons.p), LAMBDA alt :
    Parsed(IfStatement(cond.node, cons.node, alt.node), alt.p)))))

parseSingleStatement(toks, p) ==
    LET type == curToken(toks, p).Type
    IN  CASE type = "PRINT"  -> parsePrintStatement(toks, p)
          [] type = "LET"    -> parseLetStatement(toks, p)
          [] type = "IF"     -> parseIfStatement(toks, p)
          [] type = "GOTO"   -> parseGotoStatement(toks, p)
          [] type = "GOSUB"  -> parseGosubStatement(toks, p)
          [] type = "RETURN" -> Parsed(ReturnStatement, p)
          [] type = "FOR"    -> parseForStatement(toks, p)
          [] type = "NEXT"   -> parseNextStatement(toks, p)
          [] type = "INPUT"  -> parseInputStatement(toks, p)
          [] type = "END"    -> Parsed(EndStatement, p)
          [] type = "REM"    -> parseRemStatement(toks, p)
          [] type = "DIM"    -> parseDimStatement(toks, p)
          [] OTHER ->
               Bind(parseExpression(toks, p, LOWEST), LAMBDA e :
               Parsed(ExpressionStatement(e.node), e.p))

\* parseStatement's loop over the statements chained with ':'
RECURSIVE chainLoop(_, _, _)
chainLoop(toks, p, stmts) ==
    IF peekTokenIs(toks, p, ":")
    THEN Bind(nextToken(nextToken(p)), LAMBDA q :
         IF curToken(toks, q).Type \in {"NEWLINE", "EOF", ":", "ELSE"}
         THEN [stmts |-> stmts, p |-> q]
         ELSE Bind(parseSingleStatement(toks, q), LAMBDA nextStmt :
              chainLoop(toks, nextStmt.p, Append(stmts, nextStmt.node))))
    ELSE [stmts |-> stmts, p |-> p]

parseStatement(toks, p) ==
    Bind(parseSingleStatement(toks, p), LAMBDA stmt :
    Bind(chainLoop(toks, stmt.p, <<stmt.node>>), LAMBDA r :
    IF Len(r.stmts) = 1 THEN Parsed(r.stmts[1], r.p)
    ELSE Parsed(SequenceStatement(r.stmts), r.p)))

\* parseLineStatement: a nil *LineStatement when the number is no integer
parseLineStatement(toks, p) ==
    Bind(Atoi(curToken(toks, p).Literal), LAMBDA n :
    IF ~n.ok
    THEN Parsed(TypedNil("LineStatement"),
                addError(p, "could not parse " \o curToken(toks, p).Literal
                            \o " as line number"))
    ELSE Bind(parseStatement(toks, nextToken(p)), LAMBDA stmt :
         Parsed([k |-> "LineStatement", LineNumber |-> n.int,
                 Statement |-> stmt.node], stmt.p)))

parseStatementOrLine(toks, p) ==
    IF curTokenIs(toks, p, "NUMBER") THEN parseLineStatement(toks, p)
    ELSE parseStatement(toks, p)

\* ParseProgram's loop: the Statements map, the errors, and whether it
\* panicked on a nil *LineStatement
RECURSIVE programLoop(_, _, _)
programLoop(toks, p, statements) ==
    IF curTokenIs(toks, p, "EOF")
    THEN [Statements |-> statements, errors |-> p.errors, panic |-> FALSE]
    ELSE IF curTokenIs(toks, p, "NEWLINE")
    THEN programLoop(toks, nextToken(p), statements)
    ELSE Bind(parseStatementOrLine(toks, p), LAMBDA stmt :
         IF stmt.node = TypedNil("LineStatement")
         THEN [Statements |-> statements, errors |-> stmt.p.errors,
               panic |-> TRUE]
         ELSE IF stmt.node.k = "LineStatement"
         THEN programLoop(toks, nextToken(stmt.p),
                  MapSet(statements, stmt.node.LineNumber,
                         stmt.node.Statement))
         ELSE programLoop(toks, nextToken(stmt.p),
                          MapSet(statements, 0, stmt.node)))

\* parser.New followed by ParseProgram
ParseProgram(toks) ==
    programLoop(toks, [pos |-> 1, errors |-> <<>>], EmptyMap)

(***************************************************************************)
(* The drivers: runFile (parse, then run) and compileFile (parse, then      *)
(* Compile), and the emitted program built and run on the same input        *)
(***************************************************************************)
\* fmt.Println("Parser errors:") and a line for every message
RECURSIVE PrintErrorLines(_, _)
PrintErrorLines(out, errs) ==
    IF errs = <<>> THEN out
    ELSE PrintErrorLines(Write(out, "\t" \o Head(errs) \o "\n"),
                         Tail(errs))
PrintErrors(out, errs) ==
    PrintErrorLines(Write(out, "Parser errors:\n"), errs)

\* a runFile that runs whatever the parser has made of the text
ParseSourceAnyway ==
    /\ mode = "file"
    /\ ctl = "parse"
    /\ \E parsed \in {ParseProgram(source)} :
           /\ program' = parsed.Statements
           /\ errors' = parsed.errors
           /\ IF parsed.panic
              THEN /\ ctl' = "done"
                   /\ result' = [status |-> "panic"]
                   /\ UNCHANGED <<lines, stdout>>
              ELSE /\ ctl' = "start"
                   /\ lines' = SortInts(DOMAIN parsed.Statements)
                   /\ UNCHANGED <<result, stdout>>
    /\ UNCHANGED <<ovars, source, input, replvars, currentLine, callStack,
                   forLoops, halted, variables, arrays, reader,
                   lineNum, work, trace, steps, hvars, cvars>>

\* runFile up to evaluator.New: parse, stop on errors, sort the lines
ParseSource ==
    /\ mode = "file"
    /\ ctl = "parse"
    /\ \E parsed \in {ParseProgram(source)} :
           /\ program' = parsed.Statements
           /\ errors' = parsed.errors
           /\ IF parsed.panic
              THEN /\ ctl' = "done"
                   /\ result' = [status |-> "panic"]
                   /\ UNCHANGED <<lines, stdout>>
              ELSE IF Len(parsed.errors) > 0
              THEN /\ ctl' = "done"
                   /\ result' = [status |-> "parse errors"]
                   /\ stdout' = PrintErrors(stdout, parsed.errors)
                   /\ UNCHANGED lines
              ELSE /\ ctl' = "start"
                   /\ lines' = SortInts(DOMAIN parsed.Statements)
                   /\ UNCHANGED <<result, stdout>>
    /\ UNCHANGED <<ovars, source, input, replvars, currentLine, callStack,
                   forLoops, halted, variables, arrays, reader,
                   lineNum, work, trace, steps, hvars, cvars>>

\* the interpreter's run is over, or the model follows it no further
RunOver ==
    \/ ctl = "done" /\ result.status \in {"ok", "error"}
    \/ ctl = "loop" /\ steps >= MaxSteps

NotBuilt == [ctl |-> "none"]

\* compileFile on the same text: the program parsed without errors
CompileFile ==
    /\ mode = "file"
    /\ RunOver
    /\ emitted = Nil
    /\ emitted' = Compile(program)
    /\ UNCHANGED <<pvars, evars, rvars, hvars, go>>

\* run()'s locals and the env when run() starts
GoStart == [pc |-> 0, callStack |-> <<>>, forLoops |-> EmptyMap,
            halted |-> FALSE, vars |-> EmptyMap, arrays |-> EmptyMap,
            reader |-> input, stdout |-> <<>>]

\* the emitted program's process: g holds run()'s locals, the env and what
\* it wrote; fetched lists the lines whose case ran and transfers the
\* assignments to pc the case run last made
GoState(c, g, res, n, f, t) ==
    [ctl |-> c, pc |-> g.pc, callStack |-> g.callStack,
     forLoops |-> g.forLoops, halted |-> g.halted, vars |-> g.vars,
     arrays |-> g.arrays, reader |-> g.reader, stdout |-> g.stdout,
     result |-> res, steps |-> n, fetched |-> f, transfers |-> t]

\* `go run' of the emitted source: it builds, and run() starts
GoBuild ==
    /\ emitted # Nil
    /\ go = NotBuilt
    /\ go' = IF emitted.err # ""
             THEN GoState("done", GoStart, [status |-> "no source"], 0,
                          <<>>, <<>>)
             ELSE IF ~ValidGo(emitted)
             THEN GoState("done", GoStart, [status |-> "build failed"], 0,
                          <<>>, <<>>)
             ELSE GoState("loop", GoStart, Running, 0, <<>>, <<>>)
    /\ UNCHANGED <<pvars, evars, rvars, hvars, emitted>>

\* one iteration of run()'s dispatch loop: the case of programLines[pc]
GoStep ==
    /\ go # NotBuilt
    /\ go.ctl = "loop"
    /\ go.pc < Len(emitted.programLines) /\ ~go.halted
    /\ go.steps < MaxSteps
    /\ LET g0 == [pc |-> go.pc, callStack |-> go.callStack,
                  forLoops |-> go.forLoops, halted |-> go.halted,
                  vars |-> go.vars, arrays |-> go.arrays,
                  reader |-> go.reader, stdout |-> go.stdout,
                  transfers |-> <<>>,
                  locals |-> EmptyMap, returned |-> FALSE, err |-> ""]
           f == Append(go.fetched, emitted.programLines[go.pc + 1])
       IN  \E g \in ExecBlock(emitted.cases[go.pc + 1], {g0},
                              emitted.programLines) :
              go' = IF g.returned
                    THEN GoState("done", g,
                                 [status |-> "error", msg |-> g.err],
                                 go.steps + 1, f, g.transfers)
                    ELSE GoState("loop", [g EXCEPT !.pc = @ + 1], Running,
                                 go.steps + 1, f, g.transfers)
    /\ UNCHANGED <<pvars, evars, rvars, hvars, emitted>>

\* run()'s loop test fails: return nil
GoExit ==
    /\ go # NotBuilt
    /\ go.ctl = "loop"
    /\ ~(go.pc < Len(emitted.programLines) /\ ~go.halted)
    /\ go' = [go EXCEPT !.ctl = "done", !.result = Success]
    /\ UNCHANGED <<pvars, evars, rvars, hvars, emitted>>

(***************************************************************************)
(* The program texts and the inputs the model runs                          *)
(***************************************************************************)
KW(w) == Token(w, w)

\* the identifier branch of Lexer.NextToken: a word is the sequence of its
\* characters; its literal keeps them and its type is looked up after
\* upper-casing
LowerLetters == <<"a", "b", "c", "d", "e", "f", "g", "h", "i", "j", "k", "l",
                  "m", "n", "o", "p", "q", "r", "s", "t", "u", "v", "w", "x",
                  "y", "z">>
UpperLetters == <<"A", "B", "C", "D", "E", "F", "G", "H", "I", "J", "K", "L",
                  "M", "N", "O", "P", "Q", "R", "S", "T", "U", "V", "W", "X",
                  "Y", "Z">>
UpperChar(ch) ==
    IF \E i \in 1..26 : LowerLetters[i] = ch
    THEN UpperLetters[CHOOSE i \in 1..26 : LowerLetters[i] = ch]
    ELSE ch
LowerChar(ch) ==
    IF \E i \in 1..26 : UpperLetters[i] = ch
    THEN LowerLetters[CHOOSE i \in 1..26 : UpperLetters[i] = ch]
    ELSE ch
ToUpper(chars) == [i \in 1..Len(chars) |-> UpperChar(chars[i])]
keywords ==
    {"PRINT", "LET", "IF", "THEN", "ELSE", "GOTO", "GOSUB", "RETURN", "FOR",
     "TO", "STEP", "NEXT", "INPUT", "REM", "END", "DIM", "AND", "OR", "NOT",
     "MOD"}
LookupIdent(ident) == IF ident \in keywords THEN ident ELSE "IDENT"
Word(chars) == Token(LookupIdent(Join(ToUpper(chars))), Join(chars))
OP(o) == Token(o, o)
N(i)  == Token("NUMBER", ToString(i))
S(t)  == Token("STRING", t)
ID(n) == Token("IDENT", n)
NL    == Token("NEWLINE", "\n")

(***************************************************************************)
(* The lexer.  Lexer.ch is the byte of the input at Lexer.position, the    *)
(* byte 0 (here "") past its end; readPosition is position + 1.            *)
(***************************************************************************)
chAt(in, pos) == IF pos >= Len(in) THEN "" ELSE in[pos + 1]

isLetter(ch) ==
    \/ \E i \in 1..26 : LowerLetters[i] = ch \/ UpperLetters[i] = ch
    \/ ch = "_"
isDigit(ch) == ch \in {"0", "1", "2", "3", "4", "5", "6", "7", "8", "9"}

\* the position skipWhitespace leaves
RECURSIVE skipWhitespace(_, _)
skipWhitespace(in, pos) ==
    IF chAt(in, pos) \in {" ", "\t", "\r"} THEN skipWhitespace(in, pos + 1)
    ELSE pos

\* the position readIdentifier leaves
RECURSIVE readIdentifier(_, _)
readIdentifier(in, pos) ==
    IF isLetter(chAt(in, pos)) \/ isDigit(chAt(in, pos))
    THEN readIdentifier(in, pos + 1)
    ELSE pos

\* the position readNumber leaves
RECURSIVE readNumber(_, _)
readNumber(in, pos) ==
    IF isDigit(chAt(in, pos)) \/ chAt(in, pos) = "."
    THEN readNumber(in, pos + 1)
    ELSE pos

\* the position readString leaves, pos being the one after the opening quote
RECURSIVE readString(_, _)
readString(in, pos) ==
    IF chAt(in, pos) # "\"" /\ chAt(in, pos) # ""
    THEN readString(in, pos + 1)
    ELSE pos

\* the characters of the input from position from up to position to
Slice(in, from, to) == SubSeq(in, from + 1, to)

Lexed(tok, pos) == [tok |-> tok, position |-> pos]

\* Lexer.NextToken with the lexer at position pos0: the token and the
\* position it leaves
NextToken(in, pos0) ==
    Bind(skipWhitespace(in, pos0), LAMBDA pos :
    Bind(chAt(in, pos), LAMBDA ch :
    Bind(chAt(in, pos + 1), LAMBDA peek :
    CASE ch = "=" ->
            IF peek = "=" THEN Lexed(OP("=="), pos + 2)
            ELSE Lexed(OP("="), pos + 1)
      [] ch = "<" ->
            IF peek = "=" THEN Lexed(OP("<="), pos + 2)
            ELSE IF peek = ">" THEN Lexed(OP("<>"), pos + 2)
            ELSE Lexed(OP("<"), pos + 1)
      [] ch = ">" ->
            IF peek = "=" THEN Lexed(OP(">="), pos + 2)
            ELSE Lexed(OP(">"), pos + 1)
      [] ch \in {"+", "-", "*", "/", "(", ")", ",", ":", ";"} ->
            Lexed(OP(ch), pos + 1)
      [] ch = "\"" ->
            Bind(readString(in, pos + 1), LAMBDA e :
            Lexed(S(Join(Slice(in, pos + 1, e))), e + 1))
      [] ch = "\n" -> Lexed(NL, pos + 1)
      [] ch = "" -> Lexed(EOFToken, pos + 1)
      [] isLetter(ch) ->
            Bind(readIdentifier(in, pos), LAMBDA e :
            Lexed(Word(Slice(in, pos, e)), e))
      [] isDigit(ch) ->
            Bind(readNumber(in, pos), LAMBDA e :
            Lexed(Token("NUMBER", Join(Slice(in, pos, e))), e))
      [] OTHER -> Lexed(Token("ILLEGAL", ch), pos + 1))))


\* the source line `n toks'
SourceLine(n, toks) == <<N(n)>> \o toks \o <<NL>>

RECURSIVE Concat(_)
Concat(ss) == IF ss = <<>> THEN <<>> ELSE Head(ss) \o Concat(Tail(ss))

\* the statements the pooled programs are built from
PRINT_A   == <<KW("PRINT"), S("A")>>
LET_X     == <<KW("LET"), ID("X"), OP("="), ID("X"), OP("+"), N(1)>>
GOTO_10   == <<KW("GOTO"), N(10)>>
GOTO_30   == <<KW("GOTO"), N(30)>>
GOSUB_30  == <<KW("GOSUB"), N(30)>>
RETURN_   == <<KW("RETURN")>>
GOSUB_80  == <<KW("GOSUB"), N(80)>>
END_      == <<KW("END")>>
PRINT_DIV == <<KW("PRINT"), N(1), OP("/"), ID("X")>>
TWO_GOTO  == GOTO_30 \o <<OP(":")>> \o <<KW("GOTO"), N(20)>>
FAIL_MID  == <<KW("LET"), ID("Y"), OP("="), N(2), OP(":"),
               KW("PRINT"), S("B"), OP(";"), OP(":"),
               KW("LET"), ID("Y"), OP("="), N(1), OP("/"), N(0), OP(":"),
               KW("PRINT"), S("C")>>
FOR_I     == <<KW("FOR"), ID("I"), OP("="), N(1), KW("TO"), N(2)>>
NEXT_I    == <<KW("NEXT"), ID("I")>>
NEXT_     == <<KW("NEXT")>>
IF_X      == <<KW("IF"), ID("X"), KW("THEN"), KW("PRINT"), S("T"), OP(":"),
               KW("GOTO"), N(10), KW("ELSE"), KW("PRINT"), S("F")>>
DIM_BAD   == <<KW("DIM"), ID("A"), OP("("), S("S"), OP(")")>>

StatementPool ==
    {PRINT_A, LET_X, GOTO_10, GOTO_30, GOSUB_30, RETURN_, END_, PRINT_DIV,
     TWO_GOTO, FAIL_MID, FOR_I, NEXT_I, NEXT_, IF_X, DIM_BAD}

\* lines 10, 20, 30 each holding a statement of the pool
PooledSources ==
    UNION {{Concat([i \in 1..n |-> SourceLine(10 * i, f[i])]) :
               f \in [1..n -> StatementPool]} : n \in 1..3}

\* 10 first: second / 20 PRINT "B", END standing first or second on line 10
EndPool == {END_, PRINT_A, PRINT_DIV}
EndSource(first, second) ==
    Concat(<<SourceLine(10, first \o <<OP(":")>> \o second),
             SourceLine(20, <<KW("PRINT"), S("B")>>)>>)
EndSources == {EndSource(first, second) : first, second \in EndPool}

\* 10 first: second: PRINT "A" / 20 PRINT "B": END / 30 PRINT "C": END, and
\* 10 IF 1 THEN first: second: PRINT "A" with the same lines 20 and 30
JumpPool == {<<KW("GOTO"), N(20)>>, GOTO_30, <<KW("GOSUB"), N(20)>>,
             GOSUB_30, <<KW("PRINT"), S("X")>>}
JumpChain(first, second) ==
    first \o <<OP(":")>> \o second \o <<OP(":")>> \o PRINT_A
JumpTargets ==
    Concat(<<SourceLine(20, <<KW("PRINT"), S("B"), OP(":"), KW("END")>>),
             SourceLine(30, <<KW("PRINT"), S("C"), OP(":"), KW("END")>>)>>)
JumpSource(first, second) ==
    SourceLine(10, JumpChain(first, second)) \o JumpTargets
JumpInIfSource(first, second) ==
    SourceLine(10, <<KW("IF"), N(1), KW("THEN")>> \o JumpChain(first, second))
        \o JumpTargets
JumpSources ==
    {JumpSource(first, second) : first, second \in JumpPool}
        \cup {JumpInIfSource(first, second) : first, second \in JumpPool}

\* the expressions a GOTO or GOSUB is given, each with what the resolution
\* is to come to: the line to go to, or the message of the failure.
\* 30 / 25 / 20.5 / 2.5 / -0.5 / -20.5 / "S" / "30"
Destinations ==
    {[expr |-> <<N(30)>>, line |-> 30, msg |-> ""],
     [expr |-> <<N(25)>>, line |-> 0, msg |-> "line 25 not found"],
     [expr |-> <<Token("NUMBER", "20.5")>>, line |-> 20, msg |-> ""],
     [expr |-> <<Token("NUMBER", "2.5")>>, line |-> 0,
      msg |-> "line 2 not found"],
     [expr |-> <<OP("-"), Token("NUMBER", "0.5")>>, line |-> 0,
      msg |-> "line 0 not found"],
     [expr |-> <<OP("-"), Token("NUMBER", "20.5")>>, line |-> 0,
      msg |-> "line -20 not found"],
     [expr |-> <<S("S")>>, line |-> 0, msg |-> " requires a number"],
     [expr |-> <<S("30")>>, line |-> 0, msg |-> " requires a number"]}
\* 10 PRINT "A": jump expr: PRINT "Z" / 20 PRINT "B": END / 30 PRINT "C": END
DestinationSource(jump, expr) ==
    SourceLine(10, PRINT_A \o <<OP(":"), KW(jump)>> \o expr
                     \o <<OP(":"), KW("PRINT"), S("Z")>>)
        \o JumpTargets
DestinationSources ==
    {DestinationSource(jump, d.expr) :
        jump \in {"GOTO", "GOSUB"}, d \in Destinations}

\* 10 a: b: c / 20 NEXT I: RETURN, with a, b, c among the statements that
\* set the program counter or prepare it to be set
PcPool == {GOTO_10, <<KW("GOSUB"), N(10)>>, <<KW("GOSUB"), N(20)>>, RETURN_,
           FOR_I, NEXT_I}
PcSource(a, b, c) ==
    Concat(<<SourceLine(10, a \o <<OP(":")>> \o b \o <<OP(":")>> \o c),
             SourceLine(20, NEXT_I \o <<OP(":")>> \o RETURN_)>>)
PcSources == {PcSource(a, b, c) : a, b, c \in PcPool}

\* statements that neither jump nor fail
REM_      == <<KW("REM"), ID("hi")>>
EXPR_X    == <<ID("X"), OP("+"), N(1)>>
StraightPool == {PRINT_A, LET_X, REM_, EXPR_X}

\* the orders in which n lines can stand in the text
Orders(n) == {o \in [1..n -> 1..n] : \A i, j \in 1..n : o[i] = o[j] => i = j}

\* lines 10, 20, ... of straight statements, the text holding them in order o
StraightSource(n, f, o) ==
    Concat([i \in 1..n |-> SourceLine(10 * o[i], f[o[i]])])

StraightSources ==
    UNION {{StraightSource(n, f, o) :
               f \in [1..n -> StraightPool], o \in Orders(n)} :
           n \in 1..MaxLines}

\* the line numbers of a text in the order the text holds them
RECURSIVE TextOrder(_, _)
TextOrder(toks, atStart) ==
    IF toks = <<>> THEN <<>>
    ELSE IF atStart /\ Head(toks).Type = "NUMBER"
    THEN <<Atoi(Head(toks).Literal).int>> \o TextOrder(Tail(toks), FALSE)
    ELSE TextOrder(Tail(toks), Head(toks).Type = "NEWLINE")

\* 10 FOR I = a TO b [STEP s] / 20 body / 30 NEXT I / 40 PRINT "E"
StepDefault == <<>>
StepDown    == <<KW("STEP"), OP("-"), N(1)>>
StepOne     == <<KW("STEP"), N(1)>>
StepTwo     == <<KW("STEP"), N(2)>>
LoopSteps   == {StepDefault, StepDown, StepOne, StepTwo}
BodyPrint   == <<KW("PRINT"), ID("I"), OP(";")>>
BodySum     == <<KW("LET"), ID("X"), OP("="), ID("X"), OP("+"), ID("I"),
                 OP(":"), KW("PRINT"), ID("I"), OP(";")>>
LoopBodies  == {BodyPrint, BodySum}

LoopSource(a, b, step, body) ==
    Concat(<<SourceLine(10, <<KW("FOR"), ID("I"), OP("="), N(a), KW("TO"),
                              N(b)>> \o step),
             SourceLine(20, body),
             SourceLine(30, NEXT_I),
             SourceLine(40, <<KW("PRINT"), S("E")>>)>>)

LoopSources ==
    {LoopSource(a, b, step, body) :
        a \in 0..MaxLoopEnd, b \in 0..MaxLoopEnd, step \in LoopSteps,
        body \in LoopBodies}

\* 10 FOR I = 0 TO a / 15 PRINT "A"; / 20 FOR I = 1 TO b [STEP s] /
\* 25 PRINT I; / 30 NEXT I / 35 tail: a FOR on I while a loop on I is open
SameVarTails == {<<KW("PRINT"), S("E")>>, NEXT_I}
SameVarSource(a, b, step, tail) ==
    Concat(<<SourceLine(10, <<KW("FOR"), ID("I"), OP("="), N(0), KW("TO"),
                              N(a)>>),
             SourceLine(15, <<KW("PRINT"), S("A"), OP(";")>>),
             SourceLine(20, <<KW("FOR"), ID("I"), OP("="), N(1), KW("TO"),
                              N(b)>> \o step),
             SourceLine(25, BodyPrint),
             SourceLine(30, NEXT_I),
             SourceLine(35, tail)>>)
SameVarSources ==
    {SameVarSource(a, b, step, tail) :
        a \in {0, 3}, b \in 1..3, step \in {StepDefault, StepTwo},
        tail \in SameVarTails}

\* the loops with no step at all: FOR I = a TO b STEP 0
StepZero == <<KW("STEP"), N(0)>>
ZeroStepSources == {LoopSource(a, b, StepZero, BodyPrint) : a, b \in 0..2}

\* 10 FOR I = a TO b [STEP s] / 20 PRINT I; / 30 NEXT / 40 PRINT "E"
BareLoopSource(a, b, step) ==
    Concat(<<SourceLine(10, <<KW("FOR"), ID("I"), OP("="), N(a), KW("TO"),
                              N(b)>> \o step),
             SourceLine(20, BodyPrint),
             SourceLine(30, NEXT_),
             SourceLine(40, <<KW("PRINT"), S("E")>>)>>)
BareLoopSources ==
    {BareLoopSource(a, b, step) :
        a \in 0..MaxLoopEnd, b \in 0..MaxLoopEnd,
        step \in {StepDefault, StepDown}}

\* 10 first / 20 next: PRINT "Z" / 30 PRINT "B": a NEXT whose loop is not
\* open, after an assignment or with another loop open
LET_X7 == <<KW("LET"), ID("X"), OP("="), N(7)>>
FOR_J  == <<KW("FOR"), ID("J"), OP("="), N(1), KW("TO"), N(2)>>
NoLoopSource(first, next) ==
    Concat(<<SourceLine(10, first),
             SourceLine(20, next \o <<OP(":"), KW("PRINT"), S("Z")>>),
             SourceLine(30, <<KW("PRINT"), S("B")>>)>>)
NoLoopSources ==
    {NoLoopSource(first, next) : first \in {LET_X7, FOR_J},
                                 next \in {NEXT_, NEXT_I}}

\* 10 LET N = 2: LET S = 1 / 15 FOR I = 1 TO N STEP S / 20 PRINT I; /
\* 25 LET N = n: LET S = s / 30 NEXT I / 35 PRINT "E"
MovingBoundSource(n, s) ==
    Concat(<<SourceLine(10, <<KW("LET"), ID("N"), OP("="), N(2), OP(":"),
                              KW("LET"), ID("S"), OP("="), N(1)>>),
             SourceLine(15, <<KW("FOR"), ID("I"), OP("="), N(1), KW("TO"),
                              ID("N"), KW("STEP"), ID("S")>>),
             SourceLine(20, BodyPrint),
             SourceLine(25, <<KW("LET"), ID("N"), OP("="), N(n), OP(":"),
                              KW("LET"), ID("S"), OP("="), N(s)>>),
             SourceLine(30, NEXT_I),
             SourceLine(35, <<KW("PRINT"), S("E")>>)>>)
MovingBoundSources == {MovingBoundSource(n, s) : n \in 0..3, s \in 0..2}

\* statement i of a branch: PRINT "<branch><i>" or LET <branch><i> = i
Marker(branch, i) == branch \o ToString(i)
BranchStatement(branch, i, kind) ==
    IF kind = "P" THEN <<KW("PRINT"), S(Marker(branch, i))>>
    ELSE <<KW("LET"), ID(Marker(branch, i)), OP("="), N(i)>>

\* the statements of a branch chained with ':'
RECURSIVE Chain(_, _, _)
Chain(branch, kinds, i) ==
    IF i > Len(kinds) THEN <<>>
    ELSE (IF i > 1 THEN <<OP(":")>> ELSE <<>>)
         \o BranchStatement(branch, i, kinds[i])
         \o Chain(branch, kinds, i + 1)

\* 10 IF c THEN s1: s2: ... [ELSE t1: t2: ...] / 20 PRINT "Z"
IfSource(c, ss, ts) ==
    Concat(<<SourceLine(10, <<KW("IF"), c, KW("THEN")>> \o Chain("S", ss, 1)
                            \o (IF ts = <<>> THEN <<>>
                                ELSE <<KW("ELSE")>> \o Chain("T", ts, 1))),
             SourceLine(20, <<KW("PRINT"), S("Z")>>)>>)

Conditions == {N(0), N(1), S(""), S("x"), ID("X")}
Chains(lo) == UNION {[1..n -> {"P", "L"}] : n \in lo..MaxChain}

IfSources ==
    {IfSource(c, ss, ts) : c \in Conditions, ss \in Chains(1),
                           ts \in Chains(0)}

\* programs that read input
INPUT_X  == <<KW("INPUT"), ID("X")>>
INPUT_XY == <<KW("INPUT"), S("N"), OP(";"), ID("X"), OP(","), ID("Y")>>
PRINT_XY == <<KW("PRINT"), ID("X"), OP(";"), ID("Y")>>
InputSources ==
    {Concat(<<SourceLine(10, i), SourceLine(20, PRINT_XY)>>) :
        i \in {INPUT_X, INPUT_XY}}

\* the lines standard input can hold, each with the values its fields
\* denote: 1 / " 1,x " / 2.5,2,20.5 / the empty line / ,7 / "a b, -1"
InputLines ==
    {[chars |-> <<"1">>, fields |-> <<NumberValue(Q(1))>>],
     [chars |-> <<" ", "1", ",", "x", " ">>,
      fields |-> <<NumberValue(Q(1)), StringValue("x")>>],
     [chars |-> <<"2", ".", "5", ",", "2", ",", "2", "0", ".", "5">>,
      fields |-> <<NumberValue(Rat(5, 2)), NumberValue(Q(2)),
                   NumberValue(Rat(41, 2))>>],
     [chars |-> <<>>, fields |-> <<StringValue("")>>],
     [chars |-> <<",", "7">>, fields |-> <<StringValue(""), NumberValue(Q(7))>>],
     [chars |-> <<"a", " ", "b", ",", " ", "-", "1">>,
      fields |-> <<StringValue("a b"), NumberValue(Q(-1))>>]}
\* standard input: nothing, or one of the lines
Inputs == {<<>>} \cup {<<l.chars>> : l \in InputLines}

\* 10 LET Z = 5: LET Y = 9 / 20 INPUT targets / 30 PRINT "Z"
Targets == {<<"X">>, <<"X", "Y">>, <<"X", "Y", "W">>, <<"Y", "X", "Y">>}
RECURSIVE TargetList(_, _)
TargetList(targets, i) ==
    IF i > Len(targets) THEN <<>>
    ELSE (IF i > 1 THEN <<OP(",")>> ELSE <<>>) \o <<ID(targets[i])>>
         \o TargetList(targets, i + 1)
TargetSource(targets) ==
    Concat(<<SourceLine(10, <<KW("LET"), ID("Z"), OP("="), N(5), OP(":"),
                              KW("LET"), ID("Y"), OP("="), N(9)>>),
             SourceLine(20, <<KW("INPUT")>> \o TargetList(targets, 1)),
             SourceLine(30, <<KW("PRINT"), S("Z")>>)>>)
TargetSources == {TargetSource(targets) : targets \in Targets}

\* 10 INPUT "N" sep targets: the separators after the prompt
PromptSource(sep, targets) ==
    SourceLine(10, <<KW("INPUT"), S("N"), OP(sep)>> \o TargetList(targets, 1))
PromptSources ==
    {PromptSource(sep, targets) :
        sep \in {";", ","}, targets \in {<<"X">>, <<"X", "Y">>}}

\* 10 statement, where the statement applies "(" to an expression that is
\* no identifier and ends there or goes on with an operator
CallStatements ==
    {<<KW("PRINT"), N(1), OP("(")>>,
     <<KW("PRINT"), N(1), OP("("), OP("+"), N(2)>>,
     <<KW("LET"), ID("X"), OP("="), N(1), OP("(")>>,
     <<KW("LET"), ID("X"), OP("="), N(2), OP("*"), S("a"), OP("(")>>,
     <<KW("IF"), N(1), OP("("), KW("THEN"), KW("PRINT"), S("A")>>,
     <<KW("PRINT"), ID("X"), OP("(")>>,
     <<KW("PRINT"), N(1), OP("("), N(2), OP(")")>>}
CallSources == {SourceLine(10, c) : c \in CallStatements}

\* single programs: two open loops closed by bare NEXTs, and lines that
\* chain a GOSUB with a GOTO
TwoLoops ==
    Concat(<<SourceLine(10, FOR_I),
             SourceLine(20, <<KW("FOR"), ID("J"), OP("="), N(1), KW("TO"),
                              N(1)>>),
             SourceLine(30, NEXT_),
             SourceLine(40, NEXT_)>>)
GotoThenGosub ==
    Concat(<<SourceLine(10, GOTO_30 \o <<OP(":"), KW("GOSUB"), N(20)>>),
             SourceLine(20, RETURN_),
             SourceLine(30, END_)>>)
GosubThenGoto ==
    Concat(<<SourceLine(10, GOSUB_30 \o <<OP(":"), KW("GOTO"), N(20)>>),
             SourceLine(20, END_),
             SourceLine(30, RETURN_)>>)
Subroutine ==
    Concat(<<SourceLine(10, GOSUB_30),
             SourceLine(20, END_),
             SourceLine(30, PRINT_A),
             SourceLine(40, RETURN_)>>)
\* a subroutine that calls a second one
Nested ==
    Concat(<<SourceLine(10, <<KW("GOSUB"), N(25)>>),
             SourceLine(15, <<KW("PRINT"), S("D")>>),
             SourceLine(20, END_),
             SourceLine(25, <<KW("GOSUB"), N(35)>>),
             SourceLine(30, RETURN_),
             SourceLine(35, PRINT_A),
             SourceLine(40, RETURN_)>>)
SingleSources == {TwoLoops, GotoThenGosub, GosubThenGoto, Subroutine, Nested}

\* texts the parser reports errors for: a statement cut short, a missing
\* THEN, an open parenthesis, and a line number that is no integer
BadStatements ==
    {<<KW("LET"), OP("="), N(1)>>, <<KW("GOTO")>>,
     <<KW("IF"), N(1), KW("PRINT"), S("B")>>,
     <<KW("PRINT"), OP("("), N(1)>>, <<KW("PRINT"), S("B"), OP(";"), OP(";")>>}
BadSources ==
    {Concat(<<SourceLine(10, PRINT_A), SourceLine(20, b)>>) :
        b \in BadStatements}
    \cup {Concat(<<SourceLine(10, b), SourceLine(20, PRINT_A)>>) :
             b \in BadStatements}
    \cup {SourceLine(10, PRINT_A)
             \o <<Token("NUMBER", "1.5")>> \o PRINT_A \o <<NL>>}

\* 10 PRINT item1 sep1 item2 ... [dangling]: the items, the separators
\* between them and the separator the statement ends with ("" for none)
\* 10 pre / 20 read of A(index) / 30 DIM A(3), where pre declares no array
\* A: the statements before and the indexes
DIM_A3    == <<KW("DIM"), ID("A"), OP("("), N(3), OP(")")>>
DIM_B3    == <<KW("DIM"), ID("B"), OP("("), N(3), OP(")")>>
DIM_SKIP  == <<KW("IF"), N(0), KW("THEN")>> \o DIM_A3
NoDimA    == {REM_, DIM_B3, DIM_SKIP}
Indexes   == {<<N(0)>>, <<N(7)>>, <<OP("-"), N(1)>>, <<S("s")>>, <<ID("X")>>}
ReadA(read, index) ==
    (IF read = "PRINT" THEN <<KW("PRINT")>>
     ELSE <<KW("LET"), ID("Y"), OP("=")>>)
    \o <<ID("A"), OP("(")>> \o index \o <<OP(")")>>
ArraySource(pre, read, index) ==
    Concat(<<SourceLine(10, pre), SourceLine(20, ReadA(read, index)),
             SourceLine(30, DIM_A3)>>)
ArraySources ==
    {ArraySource(pre, read, index) :
        pre \in NoDimA \cup {DIM_A3}, read \in {"PRINT", "LET"},
        index \in Indexes}

\* 10 pre / 20 DIM A(size) / 30 PRINT "E": the statements before, one of
\* which declares A already, and the size expressions, those whose
\* evaluation fails or gives a String among them
DimSizes == {<<N(3)>>, <<N(0)>>, <<OP("-"), N(1)>>, <<ID("X")>>,
             <<S("S")>>, <<N(1), OP("/"), N(0)>>,
             <<ID("B"), OP("("), N(0), OP(")")>>}
DimFailing == {<<S("S")>>, <<N(1), OP("/"), N(0)>>,
               <<ID("B"), OP("("), N(0), OP(")")>>}
DimA(size) == <<KW("DIM"), ID("A"), OP("(")>> \o size \o <<OP(")")>>
DimSource(pre, size) ==
    Concat(<<SourceLine(10, pre), SourceLine(20, DimA(size)),
             SourceLine(30, <<KW("PRINT"), S("E")>>)>>)
DimSources == {DimSource(pre, size) : pre \in {REM_, DIM_A3}, size \in DimSizes}

\* 10 DIM A(3) / 20 attempt / 30 PRINT A(0): the statements that would
\* store into A(0) if the language had a way to
StoreAttempts ==
    {<<KW("LET"), ID("A"), OP("("), N(0), OP(")"), OP("="), N(5)>>,
     <<ID("A"), OP("("), N(0), OP(")"), OP("="), N(5)>>,
     <<KW("INPUT"), ID("A"), OP("("), N(0), OP(")")>>,
     <<KW("FOR"), ID("A"), OP("("), N(0), OP(")"), OP("="), N(1),
       KW("TO"), N(2)>>,
     <<KW("LET"), ID("A"), OP("="), N(5)>>}
StoreSource(attempt) ==
    Concat(<<SourceLine(10, DIM_A3), SourceLine(20, attempt),
             SourceLine(30, <<KW("PRINT"), ID("A"), OP("("), N(0), OP(")")>>)>>)
StoreSources == {StoreSource(attempt) : attempt \in StoreAttempts}

\* 10 PRINT l op r: the binary operators and the operands, Numbers and
\* Strings (MOD is not given a zero divisor)
BinaryOperators ==
    {OP("+"), OP("-"), OP("*"), OP("/"), KW("MOD"), OP("<"), OP(">"),
     OP("<="), OP(">="), OP("=="), OP("<>"), KW("AND"), KW("OR")}
Operands == {N(0), N(2), N(7), S("a"), S("b")}
OperatorSource(l, op, r) == SourceLine(10, <<KW("PRINT"), l, op, r>>)
OperatorSources ==
    {OperatorSource(l, op, r) :
        l \in Operands, r \in Operands \ {N(0)}, op \in BinaryOperators}
    \cup {OperatorSource(l, op, N(0)) :
             l \in Operands, op \in BinaryOperators \ {KW("MOD")}}

\* 10 PRINT l AND (r), 10 PRINT l OR (r): the left operands, one that
\* decides AND and one that decides OR, and the right operands, two of
\* which fail to evaluate
LogicLefts == {N(0), N(1)}
DIV_ZERO == <<N(1), OP("/"), N(0)>>
READ_B   == <<ID("B"), OP("("), N(0), OP(")")>>
LogicRights == {DIV_ZERO, READ_B, <<N(1)>>, <<N(0)>>}
LogicSource(l, op, r) ==
    SourceLine(10, <<KW("PRINT"), l, KW(op), OP("(")>> \o r \o <<OP(")")>>)
LogicSources ==
    {LogicSource(l, op, r) :
        l \in LogicLefts, op \in {"AND", "OR"}, r \in LogicRights}

\* 10 LET X = 1 op1 2 op2 3, 10 LET X = pre 1 op 2 and 10 LET X = pre A(1):
\* every pair of binary operators and every prefix operator
PrefixOperators == {OP("-"), KW("NOT")}
LET_X_IS == <<KW("LET"), ID("X"), OP("=")>>
TwoOperators(op1, op2) ==
    SourceLine(10, LET_X_IS \o <<N(1), op1, N(2), op2, N(3)>>)
PrefixThenBinary(pre, op) ==
    SourceLine(10, LET_X_IS \o <<pre, N(1), op, N(2)>>)
PrefixThenIndex(pre) ==
    Concat(<<SourceLine(5, DIM_A3),
             SourceLine(10, LET_X_IS \o <<pre, ID("A"), OP("("), N(1), OP(")")>>)>>)
PrecedenceSources ==
    {TwoOperators(op1, op2) : op1 \in BinaryOperators, op2 \in BinaryOperators}
    \cup {PrefixThenBinary(pre, op) :
             pre \in PrefixOperators, op \in BinaryOperators}
    \cup {PrefixThenIndex(pre) : pre \in PrefixOperators}

\* 10 <statement>, its words spelled in upper, lower or mixed case: the
\* statements, each with what its upper-case spelling writes
Casings == {"upper", "lower", "mixed"}
Spell(chars, casing) ==
    [i \in 1..Len(chars) |->
        IF casing = "upper" \/ (casing = "mixed" /\ i = 1)
        THEN UpperChar(chars[i]) ELSE LowerChar(chars[i])]
Spelled(chars, casing) == Word(Spell(chars, casing))
PRINT_(c) == Spelled(<<"P", "R", "I", "N", "T">>, c)
CasePrint(c)  == <<PRINT_(c), S("A")>>
CaseAnd(c)    == <<PRINT_(c), N(1), Spelled(<<"A", "N", "D">>, c), N(1)>>
CaseOr(c)     == <<PRINT_(c), N(0), Spelled(<<"O", "R">>, c), N(1)>>
CaseNot(c)    == <<PRINT_(c), Spelled(<<"N", "O", "T">>, c), N(0)>>
CaseMod(c)    == <<PRINT_(c), N(7), Spelled(<<"M", "O", "D">>, c), N(4)>>
CaseIf(c)     == <<Spelled(<<"I", "F">>, c), N(1),
                   Spelled(<<"T", "H", "E", "N">>, c), PRINT_(c), S("T"),
                   Spelled(<<"E", "L", "S", "E">>, c), PRINT_(c), S("F")>>
CaseLet(c)    == <<Spelled(<<"L", "E", "T">>, c), Word(<<"x">>), OP("="),
                   N(1), OP(":"), PRINT_(c), Word(<<"x">>), OP(";"),
                   Word(<<"X">>)>>
CaseStatements(c) ==
    {[toks |-> CasePrint(c), out |-> "A\n"],
     [toks |-> CaseAnd(c), out |-> "1\n"],
     [toks |-> CaseOr(c), out |-> "1\n"],
     [toks |-> CaseNot(c), out |-> "1\n"],
     [toks |-> CaseMod(c), out |-> "3\n"],
     [toks |-> CaseIf(c), out |-> "T\n"],
     [toks |-> CaseLet(c), out |-> "10\n"]}
CaseSources ==
    UNION {{SourceLine(10, e.toks) : e \in CaseStatements(c)} : c \in Casings}

PrintItemPool == {S("A"), N(7), ID("X")}
PrintSeparators == {";", ","}
RECURSIVE PrintList(_, _, _)
PrintList(items, seps, i) ==
    IF i > Len(items) THEN <<>>
    ELSE (IF i > 1 THEN <<OP(seps[i - 1])>> ELSE <<>>) \o <<items[i]>>
         \o PrintList(items, seps, i + 1)
PrintSource(items, seps, dangling) ==
    SourceLine(10, <<KW("PRINT")>> \o PrintList(items, seps, 1)
                   \o (IF dangling = "" THEN <<>> ELSE <<OP(dangling)>>))
PrintSources ==
    {SourceLine(10, <<KW("PRINT")>>)} \cup
    UNION {{PrintSource(items, seps, dangling) :
               items \in [1..n -> PrintItemPool],
               seps \in [1..(n - 1) -> PrintSeparators],
               dangling \in PrintSeparators \cup {""}} : n \in 1..MaxItems}

Init ==
    /\ \/ source \in PooledSources /\ input = <<>>
       \/ source \in StraightSources /\ input = <<>>
       \/ source \in LoopSources /\ input = <<>>
       \/ source \in IfSources /\ input = <<>>
       \/ source \in SingleSources /\ input = <<>>
       \/ source \in PrintSources /\ input = <<>>
       \/ source \in ArraySources /\ input = <<>>
       \/ source \in BadSources /\ input = <<>>
       \/ source \in CaseSources /\ input = <<>>
       \/ source \in EndSources /\ input = <<>>
       \/ source \in JumpSources \cup DestinationSources /\ input = <<>>
       \/ source \in PcSources \cup SameVarSources /\ input = <<>>
       \/ source \in BareLoopSources \cup NoLoopSources /\ input = <<>>
       \/ source \in MovingBoundSources \cup ZeroStepSources /\ input = <<>>
       \/ source \in DimSources \cup StoreSources /\ input = <<>>
       \/ source \in OperatorSources \cup LogicSources /\ input = <<>>
       \/ source \in CallSources \cup PrecedenceSources /\ input = <<>>
       \/ source \in InputSources \cup TargetSources /\ input \in Inputs
       \/ source \in PromptSources /\ input \in {<<>>, <<<<"1", ",", "x">>>>}
    /\ fetched = <<>>
    /\ transfers = <<>>
    /\ callSites = <<>>
    /\ chose = FALSE
    /\ mode = "file"
    /\ session = <<>>
    /\ stored = EmptyMap
    /\ todo = {}
    /\ runs = <<>>
    /\ mark = 0
    /\ program = EmptyMap
    /\ errors = <<>>
    /\ lines = <<>>
    /\ currentLine = 0
    /\ callStack = <<>>
    /\ forLoops = EmptyMap
    /\ halted = FALSE
    /\ variables = EmptyMap
    /\ arrays = EmptyMap
    /\ reader = input
    /\ stdout = <<>>
    /\ ctl = "parse"
    /\ lineNum = 0
    /\ work = <<>>
    /\ result = Running
    /\ trace = <<>>
    /\ steps = 0
    /\ emitted = Nil
    /\ go = NotBuilt
    /\ lexerInput = <<>>
    /\ stderr = <<>>
    /\ position = 0

Next ==
    \/ ParseSource
    \/ RunStart
    \/ RunFetch
    \/ RunAdvance
    \/ RunExit
    \/ evalPrintStatement
    \/ evalLetStatement
    \/ evalIfStatement
    \/ evalGotoStatement
    \/ evalGosubStatement
    \/ evalReturnStatement
    \/ evalForStatement
    \/ evalNextStatement
    \/ evalInputStatement
    \/ evalEndStatement
    \/ evalRemStatement
    \/ evalDimStatement
    \/ evalExpressionStatement
    \/ evalSequenceStatement
    \/ CompileFile
    \/ GoBuild
    \/ GoStep
    \/ GoExit

Spec == Init /\ [][Next]_vars

(***************************************************************************)
(* runREPL: the terminal's entries are program lines and RUN.  A run of    *)
(* the evaluator started by the REPL is the interpreter's actions above;   *)
(* the REPL goes on when Run has returned.                                 *)
(***************************************************************************)
MaxSession == 3

\* a New that shares the variables, arrays and halted flag of the
\* evaluator before it
StartRunStale(prog, in) ==
    /\ lines' = SortInts(DOMAIN prog)
    /\ callStack' = <<>>
    /\ forLoops' = EmptyMap
    /\ reader' = in
    /\ currentLine' = 0
    /\ ctl' = "start"
    /\ result' = Running
    /\ work' = <<>>
    /\ lineNum' = 0
    /\ trace' = <<>>
    /\ steps' = 0
    /\ fetched' = <<>>
    /\ transfers' = <<>>
    /\ callSites' = <<>>
    /\ chose' = FALSE
    /\ UNCHANGED <<halted, variables, arrays>>

\* evaluator.New(program), NewEnvironment included, the terminal holding
\* the lines `in' for the run; Run is about to be called
StartRun(prog, in) ==
    /\ lines' = SortInts(DOMAIN prog)
    /\ callStack' = <<>>
    /\ forLoops' = EmptyMap
    /\ halted' = FALSE
    /\ variables' = EmptyMap
    /\ arrays' = EmptyMap
    /\ reader' = in
    /\ currentLine' = 0
    /\ ctl' = "start"
    /\ result' = Running
    /\ work' = <<>>
    /\ lineNum' = 0
    /\ trace' = <<>>
    /\ steps' = 0
    /\ fetched' = <<>>
    /\ transfers' = <<>>
    /\ callSites' = <<>>
    /\ chose' = FALSE

\* no evaluator is made or run
NoRun ==
    UNCHANGED <<lines, callStack, forLoops, halted, variables, arrays,
                reader, currentLine, result, work, lineNum, trace, steps,
                hvars>>

\* runProgram's programText: the stored lines in ascending order, each
\* followed by a newline
RECURSIVE programText(_, _)
programText(lineNums, rawLines) ==
    IF lineNums = <<>> THEN <<>>
    ELSE rawLines[Head(lineNums)] \o <<NL>>
         \o programText(Tail(lineNums), rawLines)

\* runREPL reads a line that is no command: ParseProgram, then
\* handleProgramInput up to its loop over program.Statements
ReplEnter ==
    /\ mode = "repl" /\ ctl = "repl"
    /\ session # <<>> /\ Head(session).cmd = "LINE"
    /\ session' = Tail(session)
    /\ source' = Head(session).toks
    /\ input' = Head(session).input
    /\ stdout' = Write(stdout, "> ")
    /\ \E parsed \in {ParseProgram(Head(session).toks)} :
          /\ program' = parsed.Statements
          /\ errors' = parsed.errors
          /\ IF parsed.panic
             THEN ctl' = "exit" /\ todo' = {}
             ELSE IF Len(parsed.errors) > 0
             THEN ctl' = "repl" /\ todo' = {}
             ELSE IF DOMAIN parsed.Statements = {}
             THEN ctl' = "repl" /\ todo' = {}
             ELSE ctl' = "input" /\ todo' = DOMAIN parsed.Statements
    /\ UNCHANGED <<lines, callStack, forLoops, halted, variables, arrays,
                   reader, currentLine, result, work, lineNum, trace, steps,
                   hvars, mode, stored, runs, mark, cvars, ovars>>

\* one iteration of handleProgramInput's loop: a numbered line is stored,
\* anything else is run at once
ReplKey ==
    /\ mode = "repl" /\ ctl = "input"
    /\ \E key \in todo :
          /\ todo' = todo \ {key}
          /\ IF key > 0
             THEN /\ stored' = MapSet(stored, key, source)
                  /\ stdout' = Write(stdout, "Line " \o ToString(key)
                                              \o " stored\n")
                  /\ ctl' = IF todo = {key} THEN "repl" ELSE "input"
                  /\ NoRun
                  /\ UNCHANGED mark
             ELSE /\ StartRun(program, input)
                  /\ mark' = Len(stdout)
                  /\ UNCHANGED <<stored, stdout>>
    /\ UNCHANGED <<ovars, source, input, program, errors, mode, session, runs,
                   cvars>>

\* runREPL reads RUN: runProgram
ReplRun ==
    /\ mode = "repl" /\ ctl = "repl"
    /\ session # <<>> /\ Head(session).cmd = "RUN"
    /\ session' = Tail(session)
    /\ input' = Head(session).input
    /\ IF DOMAIN stored = {}
       THEN /\ stdout' = Write(Write(stdout, "> "), "No program to run\n")
            /\ NoRun
            /\ UNCHANGED <<source, program, errors, ctl, mark>>
       ELSE /\ source' = programText(SortInts(DOMAIN stored), stored)
            /\ \E parsed \in {ParseProgram(programText(
                                    SortInts(DOMAIN stored), stored))} :
                  /\ program' = parsed.Statements
                  /\ errors' = parsed.errors
                  /\ IF parsed.panic
                     THEN /\ ctl' = "exit"
                          /\ stdout' = Write(stdout, "> ")
                          /\ NoRun
                          /\ UNCHANGED mark
                     ELSE IF Len(parsed.errors) > 0
                     THEN /\ ctl' = "repl"
                          /\ stdout' = PrintErrors(Write(stdout, "> "),
                                                   parsed.errors)
                          /\ NoRun
                          /\ UNCHANGED mark
                     ELSE /\ stdout' = Write(stdout, "> ")
                          /\ mark' = Len(stdout) + 1
                          /\ StartRun(parsed.Statements,
                                      Head(session).input)
    /\ UNCHANGED <<ovars, mode, stored, todo, runs, cvars>>

\* Evaluator.Run has returned to runProgram or to handleProgramInput, which
\* returns the error of a run and goes on with its loop otherwise
ReplResume ==
    /\ mode = "repl" /\ ctl = "done"
    /\ result.status \in {"ok", "error"}
    /\ runs' = Append(runs, [program |-> program, input |-> input,
                             out |-> SubSeq(stdout, mark + 1, Len(stdout)),
                             result |-> result, chose |-> chose])
    /\ todo' = IF result.status = "error" THEN {} ELSE todo
    /\ ctl' = IF result.status = "error" \/ todo = {} THEN "repl"
              ELSE "input"
    /\ UNCHANGED <<ovars, source, input, program, errors, mode, session, stored,
                   mark, evars, lineNum, work, result, trace, steps, hvars,
                   cvars>>

\* the terminal holds nothing more: runREPL returns
ReplExit ==
    /\ mode = "repl" /\ ctl = "repl"
    /\ session = <<>>
    /\ stdout' = Write(stdout, "> ")
    /\ ctl' = "exit"
    /\ UNCHANGED <<pvars, lines, currentLine, callStack, forLoops, halted,
                   variables, arrays, reader, lineNum, work, result, trace,
                   steps, hvars, cvars>>

\* strings.Join(parseErrors, "; ")
RECURSIVE JoinErrors(_)
JoinErrors(errs) ==
    IF Len(errs) = 1 THEN Head(errs)
    ELSE Head(errs) \o "; " \o JoinErrors(Tail(errs))

\* handleProgramInput as loadProgramFromFile calls it, allowImmediate and
\* echoStored being false: its loop meets every key of program.Statements
\* unless a key that is no line number ends it, and what it stored before
\* that is in a map the caller drops
handleProgramInput(parsed, rawLine, loaded) ==
    IF Len(parsed.errors) > 0
    THEN [ok |-> FALSE, err |-> JoinErrors(parsed.errors), lines |-> Nil]
    ELSE IF DOMAIN parsed.Statements = {}
    THEN [ok |-> FALSE, err |-> "no statements parsed from input",
          lines |-> Nil]
    ELSE IF \E num \in DOMAIN parsed.Statements : ~(num > 0)
    THEN [ok |-> FALSE, err |-> "line must start with a line number",
          lines |-> Nil]
    ELSE [ok |-> TRUE, err |-> "",
          lines |-> [num \in DOMAIN loaded \cup DOMAIN parsed.Statements |->
                        IF num \in DOMAIN parsed.Statements THEN rawLine
                        ELSE loaded[num]]]

\* loadProgramFromFile's loop over the lines of the file, the empty ones
\* skipped; ParseProgram panics on a line whose number is no integer
RECURSIVE loadLoop(_, _)
loadLoop(content, loaded) ==
    IF content = <<>>
    THEN [panic |-> FALSE, ok |-> TRUE, err |-> Nil, loaded |-> loaded]
    ELSE IF Head(content) = <<>> THEN loadLoop(Tail(content), loaded)
    ELSE Bind(ParseProgram(Head(content)), LAMBDA parsed :
         IF parsed.panic
         THEN [panic |-> TRUE, ok |-> FALSE, err |-> Nil, loaded |-> Nil]
         ELSE Bind(handleProgramInput(parsed, Head(content), loaded),
              LAMBDA handled :
              IF ~handled.ok
              THEN [panic |-> FALSE, ok |-> FALSE,
                    err |-> [line |-> Head(content), msg |-> handled.err],
                    loaded |-> Nil]
              ELSE loadLoop(Tail(content), handled.lines)))

\* loadProgramFromFile: os.ReadFile, then the loop into a new map
loadProgramFromFile(file) ==
    IF file.err
    THEN [panic |-> FALSE, ok |-> FALSE,
          err |-> [line |-> Nil,
                   msg |-> "open " \o file.name
                           \o ": no such file or directory"],
          loaded |-> Nil]
    ELSE loadLoop(file.content, EmptyMap)

\* runREPL reads LOAD and a file name
ReplLoad ==
    /\ mode = "repl" /\ ctl = "repl"
    /\ session # <<>> /\ Head(session).cmd = "LOAD"
    /\ session' = Tail(session)
    /\ \E got \in {loadProgramFromFile(Head(session).file)} :
          IF got.panic
          THEN /\ ctl' = "exit"
               /\ stdout' = Write(stdout, "> ")
               /\ UNCHANGED <<stored, stderr>>
          ELSE IF ~got.ok
          THEN /\ ctl' = "repl"
               /\ stdout' = Write(stdout, "> ")
               /\ stderr' = Append(stderr, [prefix |-> "Error loading program: ",
                                            err |-> got.err])
               /\ UNCHANGED stored
          ELSE /\ ctl' = "repl"
               /\ stored' = got.loaded
               /\ stdout' = Write(Write(stdout, "> "),
                                  "Loaded "
                                  \o ToString(Cardinality(DOMAIN got.loaded))
                                  \o " lines from "
                                  \o Head(session).file.name \o "\n")
               /\ UNCHANGED stderr
    /\ NoRun
    /\ UNCHANGED <<lvars, source, input, program, errors, mode, todo, runs,
                   mark, cvars>>

\* strconv.Atoi on the characters of a string: an optional sign, then
\* digits and nothing else
DigitValue(ch) == CHOOSE d \in 0..9 : ToString(d) = ch
RECURSIVE Decimal(_, _)
Decimal(chars, acc) ==
    IF chars = <<>> THEN acc
    ELSE Decimal(Tail(chars), 10 * acc + DigitValue(Head(chars)))
AllDigits(chars) ==
    /\ chars # <<>>
    /\ \A i \in 1..Len(chars) : isDigit(chars[i])
AtoiChars(chars) ==
    IF chars # <<>> /\ Head(chars) \in {"+", "-"}
    THEN IF AllDigits(Tail(chars))
         THEN [ok |-> TRUE,
               int |-> IF Head(chars) = "-" THEN 0 - Decimal(Tail(chars), 0)
                       ELSE Decimal(Tail(chars), 0)]
         ELSE [ok |-> FALSE, int |-> 0]
    ELSE IF AllDigits(chars) THEN [ok |-> TRUE, int |-> Decimal(chars, 0)]
    ELSE [ok |-> FALSE, int |-> 0]
AtoiError(chars) ==
    "strconv.Atoi: parsing \"" \o Join(chars) \o "\": invalid syntax"

\* strings.SplitN(arg, "-", 2) of an arg that contains "-"
Dash(chars) == CHOOSE i \in 1..Len(chars) :
                  chars[i] = "-" /\ \A j \in 1..(i - 1) : chars[j] # "-"
SplitN2(chars) ==
    <<SubSeq(chars, 1, Dash(chars) - 1),
      SubSeq(chars, Dash(chars) + 1, Len(chars))>>

DeleteRange(start, end) == [ok |-> TRUE, err |-> "", start |-> start,
                            end |-> end]
DeleteError(msg) == [ok |-> FALSE, err |-> msg, start |-> 0, end |-> 0]

\* parseDeleteArgs
parseDeleteArgs(arg0) ==
    Bind(TrimSpace(arg0), LAMBDA arg :
    IF arg = <<>> THEN DeleteError("missing line number")
    ELSE IF \E i \in 1..Len(arg) : arg[i] = "-"
    THEN Bind(TrimSpace(SplitN2(arg)[1]), LAMBDA startStr :
         Bind(TrimSpace(SplitN2(arg)[2]), LAMBDA endStr :
         IF startStr = <<>> \/ endStr = <<>>
         THEN DeleteError("DELETE range requires both start and end, "
                          \o "e.g. DELETE 10-20")
         ELSE IF ~AtoiChars(startStr).ok
         THEN DeleteError("invalid start line: " \o AtoiError(startStr))
         ELSE IF ~AtoiChars(endStr).ok
         THEN DeleteError("invalid end line: " \o AtoiError(endStr))
         ELSE IF AtoiChars(endStr).int < AtoiChars(startStr).int
         THEN DeleteError("end line must be >= start line")
         ELSE DeleteRange(AtoiChars(startStr).int, AtoiChars(endStr).int)))
    ELSE IF ~AtoiChars(arg).ok
    THEN DeleteError("invalid line number: " \o AtoiError(arg))
    ELSE DeleteRange(AtoiChars(arg).int, AtoiChars(arg).int))

\* a deleteLines that takes the start of the range for its end as well
deleteLinesFirstOnly(rawLines, arg) ==
    Bind(parseDeleteArgs(arg), LAMBDA range :
    IF ~range.ok
    THEN [ok |-> FALSE, err |-> range.err, deleted |-> 0, lines |-> rawLines]
    ELSE [ok |-> TRUE, err |-> "",
          deleted |-> Cardinality({num \in DOMAIN rawLines :
                                      num = range.start}),
          lines |-> [num \in {k \in DOMAIN rawLines : k # range.start}
                        |-> rawLines[num]]])

\* deleteLines: the count it returns and the map it leaves
deleteLines(rawLines, arg) ==
    Bind(parseDeleteArgs(arg), LAMBDA range :
    IF ~range.ok
    THEN [ok |-> FALSE, err |-> range.err, deleted |-> 0, lines |-> rawLines]
    ELSE [ok |-> TRUE, err |-> "",
          deleted |-> Cardinality({num \in DOMAIN rawLines :
                                      num >= range.start /\ num <= range.end}),
          lines |-> [num \in {k \in DOMAIN rawLines :
                                 ~(k >= range.start /\ k <= range.end)}
                        |-> rawLines[num]]])

DeleteUsage == "Usage: DELETE <n> or DELETE <n-m>\n"

\* runREPL reads DELETE and what follows it on the line
ReplDelete ==
    /\ mode = "repl" /\ ctl = "repl"
    /\ session # <<>> /\ Head(session).cmd = "DELETE"
    /\ session' = Tail(session)
    /\ IF TrimSpace(Head(session).arg) = <<>>
       THEN /\ stdout' = Write(Write(stdout, "> "), DeleteUsage)
            /\ UNCHANGED <<stored, stderr>>
       ELSE \E got \in {deleteLines(stored, TrimSpace(Head(session).arg))} :
               IF ~got.ok
               THEN /\ stdout' = Write(stdout, "> ")
                    /\ stderr' = Append(stderr, [prefix |-> "Error: ",
                                                 err |-> got.err])
                    /\ UNCHANGED stored
               ELSE /\ stored' = got.lines
                    /\ stdout' = Write(Write(stdout, "> "),
                          IF got.deleted = 0
                          THEN "No matching lines to delete\n"
                          ELSE "Deleted " \o ToString(got.deleted)
                               \o " line(s)\n")
                    /\ UNCHANGED stderr
    /\ NoRun
    /\ UNCHANGED <<lvars, source, input, program, errors, mode, todo, runs,
                   mark, ctl, cvars>>

\* what the terminal holds: lines the REPL stores, runs at once or
\* rejects, and RUN
Line(toks)   == [cmd |-> "LINE", toks |-> toks, input |-> <<>>]
Run(in)      == [cmd |-> "RUN", toks |-> <<>>, input |-> in]
LINE_10      == <<N(10)>> \o PRINT_A
LINE_20      == <<N(20), KW("LET"), ID("X"), OP("="), ID("X"), OP("+"), N(1),
                  OP(":"), KW("PRINT"), ID("X"), OP(";"), OP(":"),
                  KW("IF"), ID("X"), KW("THEN"), KW("END")>>
LINE_20_BAD  == <<N(20), KW("LET"), OP("="), N(1)>>
LINE_30      == <<N(30), KW("PRINT"), N(1), OP("/"), N(0)>>
IMMEDIATE    == <<KW("PRINT"), S("I")>>
LINE_AND_NOW == <<N(10)>> \o PRINT_A \o <<S("B")>>
ReplPool ==
    {Line(LINE_10), Line(LINE_20), Line(LINE_20_BAD), Line(LINE_30),
     Line(IMMEDIATE), Line(LINE_AND_NOW), Run(<<>>)}
PooledSessions == UNION {[1..n -> ReplPool] : n \in 1..MaxSession}

\* 10 FOR I = 1 TO 2 / 20 FOR J = 1 TO 1 / 30 NEXT / 40 PRINT I, run twice
TwoLoopsSession ==
    <<Line(<<N(10)>> \o FOR_I),
      Line(<<N(20), KW("FOR"), ID("J"), OP("="), N(1), KW("TO"), N(1)>>),
      Line(<<N(30)>> \o NEXT_),
      Line(<<N(40), KW("PRINT"), ID("I")>>),
      Run(<<>>), Run(<<>>)>>

\* a program of every kind of statement, run twice on the same input
EveryStatementSession ==
    <<Line(<<N(10)>> \o REM_ \o <<OP(":")>>),
      Line(<<N(20)>> \o DIM_A3),
      Line(<<N(30)>> \o INPUT_X),
      Line(<<N(40), KW("FOR"), ID("I"), OP("="), N(1), KW("TO"), N(1)>>),
      Line(<<N(50)>> \o NEXT_I),
      Line(<<N(60)>> \o GOSUB_80),
      Line(<<N(70), KW("IF"), ID("X"), KW("THEN"), KW("PRINT"), ID("X"),
             KW("ELSE"), KW("GOTO"), N(90)>>),
      Line(<<N(80)>> \o RETURN_),
      Line(<<N(90)>> \o EXPR_X),
      Run(<<<<"0">>>>), Run(<<<<"0">>>>), Run(<<<<"2">>>>)>>

\* LOAD: a file that cannot be read, or the lines of one that can
MaxFile == 2
Load(file)   == [cmd |-> "LOAD", toks |-> <<>>, input |-> <<>>,
                 file |-> file]
LINE_10_B    == <<N(10), KW("PRINT"), S("B")>>
LINE_40      == <<N(40)>> \o PRINT_A
LINE_FRAC    == <<Token("NUMBER", "2.5")>> \o PRINT_A
FileLines ==
    {<<>>, LINE_10_B, LINE_20, LINE_20_BAD, LINE_40, IMMEDIATE,
     LINE_AND_NOW, LINE_FRAC}
Files ==
    {[name |-> "p.bas", err |-> TRUE, content |-> <<>>]}
    \cup {[name |-> "p.bas", err |-> FALSE, content |-> content] :
             content \in UNION {[1..n -> FileLines] : n \in 0..MaxFile}}
LoadSessions ==
    {before \o <<Load(file), Run(<<>>)>> :
        before \in {<<>>, <<Line(LINE_10), Line(LINE_30)>>},
        file \in Files}

\* DELETE: what follows the word on the line, the line being trimmed
MaxArg == 3
Delete(arg)  == [cmd |-> "DELETE", toks |-> <<>>, input |-> <<>>,
                 arg |-> arg]
ArgAlphabet == {"1", "2", "3", "-", " ", "x"}
DeleteArgs ==
    {<<>>}
    \cup {<<" ">> \o chars :
             chars \in {t \in UNION {[1..n -> ArgAlphabet] : n \in 1..MaxArg} :
                           TrimSpace(t) = t}}
LINE_1       == <<N(1)>> \o PRINT_A
LINE_2       == <<N(2), KW("PRINT"), S("B")>>
LINE_3       == <<N(3), KW("PRINT"), S("C")>>
DeleteSessions ==
    {before \o <<Delete(arg)>> :
        before \in {<<Line(LINE_1), Line(LINE_2), Line(LINE_3)>>,
                    <<Line(LINE_1), Line(LINE_3)>>},
        arg \in DeleteArgs}

Sessions ==
    PooledSessions \cup {TwoLoopsSession, EveryStatementSession}
    \cup LoadSessions \cup DeleteSessions

Banner ==
    <<"BASIC Interpreter v1.0\n",
      "Type 'EXIT' to quit, 'RUN' to execute, 'LIST' to show program\n",
      "\n">>

\* runREPL has printed its banner
ReplInit ==
    /\ mode = "repl"
    /\ session \in Sessions
    /\ stored = EmptyMap
    /\ todo = {}
    /\ runs = <<>>
    /\ mark = 0
    /\ source = <<>>
    /\ input = <<>>
    /\ fetched = <<>>
    /\ transfers = <<>>
    /\ callSites = <<>>
    /\ chose = FALSE
    /\ program = EmptyMap
    /\ errors = <<>>
    /\ lines = <<>>
    /\ currentLine = 0
    /\ callStack = <<>>
    /\ forLoops = EmptyMap
    /\ halted = FALSE
    /\ variables = EmptyMap
    /\ arrays = EmptyMap
    /\ reader = <<>>
    /\ stdout = Banner
    /\ ctl = "repl"
    /\ lineNum = 0
    /\ work = <<>>
    /\ result = Running
    /\ trace = <<>>
    /\ steps = 0
    /\ emitted = Nil
    /\ go = NotBuilt
    /\ lexerInput = <<>>
    /\ stderr = <<>>
    /\ position = 0

ReplNext ==
    \/ ReplEnter
    \/ ReplKey
    \/ ReplRun
    \/ ReplResume
    \/ ReplLoad
    \/ ReplDelete
    \/ ReplExit

\* the process in any of its modes
SpecModes == (Init \/ ReplInit) /\ [][Next \/ ReplNext]_vars

(***************************************************************************)
(* The lexer on its own: Parser.nextToken asks the Lexer for the next      *)
(* token until the token is EOF.                                           *)
(***************************************************************************)
\* the texts: every sequence of at most MaxText of these characters
MaxText == 3
LexAlphabet == {"1", ".", " ", "X", "+", "\""}
LexTexts == UNION {[1..n -> LexAlphabet] : n \in 0..MaxText}

InitLex ==
    /\ mode = "lex"
    /\ lexerInput \in LexTexts
    /\ stderr = <<>>
    /\ position = 0
    /\ source = <<>>
    /\ input = <<>>
    /\ fetched = <<>>
    /\ transfers = <<>>
    /\ callSites = <<>>
    /\ chose = FALSE
    /\ session = <<>>
    /\ stored = EmptyMap
    /\ todo = {}
    /\ runs = <<>>
    /\ mark = 0
    /\ program = EmptyMap
    /\ errors = <<>>
    /\ lines = <<>>
    /\ currentLine = 0
    /\ callStack = <<>>
    /\ forLoops = EmptyMap
    /\ halted = FALSE
    /\ variables = EmptyMap
    /\ arrays = EmptyMap
    /\ reader = <<>>
    /\ stdout = <<>>
    /\ ctl = "lex"
    /\ lineNum = 0
    /\ work = <<>>
    /\ result = Running
    /\ trace = <<>>
    /\ steps = 0
    /\ emitted = Nil
    /\ go = NotBuilt

\* one call of Lexer.NextToken: source collects the tokens
LexStep ==
    /\ mode = "lex" /\ ctl = "lex"
    /\ \E lexed \in {NextToken(lexerInput, position)} :
          /\ source' = Append(source, lexed.tok)
          /\ position' = lexed.position
          /\ ctl' = IF lexed.tok.Type = "EOF" THEN "lexed" ELSE "lex"
    /\ UNCHANGED <<lexerInput, stderr, input, program, errors, replvars, evars,
                   lineNum, work, result, trace, steps, hvars, cvars>>

SpecLex == InitLex /\ [][LexStep]_vars

(***************************************************************************)
(* Properties                                                               *)
(***************************************************************************)
\* both the interpreter's run and the emitted program's are over
BothDone ==
    /\ ctl = "done" /\ result.status \in {"ok", "error"}
    /\ go # NotBuilt /\ go.ctl = "done"

\* C1: for a program that parsed without errors, the emitted program writes
\* the bytes Evaluator.Run writes and succeeds exactly when Run succeeds
C1_SameOutputAndOutcome ==
    BothDone =>
        /\ Bytes(go.stdout) = Bytes(stdout)
        /\ (go.result.status = "ok") <=> (result.status = "ok")

\* C2: for a program the interpreter ran to success, Compile returned no
\* translation error, the emitted source is valid Go (no name declared
\* twice in a block, every declared name used) and its run succeeds
C2_CompiledRunsWhenInterpreted ==
    (BothDone /\ result.status = "ok") =>
        /\ emitted.err = ""
        /\ ValidGo(emitted)
        /\ go.result.status = "ok"

\* the statements that change the flow of control
Jumps == {"GotoStatement", "GosubStatement", "ReturnStatement",
          "NextStatement", "EndStatement"}

\* none of them has executed so far
NoJumpExecuted == \A i \in 1..Len(trace) : trace[i].k \notin Jumps

IsAscending(q) == \A i \in 1..(Len(q) - 1) : q[i] < q[i + 1]

IsPrefix(q, r) == Len(q) <= Len(r) /\ SubSeq(r, 1, Len(q)) = q

\* C3: while no GOTO, GOSUB, RETURN, NEXT or END has executed and nothing
\* has failed, the lines fetched are the lowest stored line numbers in
\* ascending order, each once, whatever their order in the text; when such
\* a run is over it succeeded and every stored line was fetched
C3_StraightLineOrder ==
    (NoJumpExecuted /\ result.status \in {"running", "ok"}) =>
        /\ IsAscending(fetched)
        /\ \A n \in DOMAIN program :
              \/ \E i \in 1..Len(fetched) : fetched[i] = n
              \/ ctl # "done" /\ (fetched # <<>> => n > Last(fetched))
        /\ \A i \in 1..Len(fetched) : fetched[i] \in DOMAIN program
        /\ ctl = "done" => result = Success

\* a straight run of three lines is over whose text held them as 30, 10, 20
C3_Witness ==
    /\ ctl = "done" /\ result = Success /\ NoJumpExecuted
    /\ TextOrder(source, TRUE) = <<30, 10, 20>>
    /\ fetched = <<10, 20, 30>>
    /\ Len(trace) = 3

\* C4: the step in which a statement fails ends the run with an error that
\* names the line fetched last, keeps the variables and arrays and all
\* output written so far; after it the interpreter executes nothing
C4_FailStop ==
    [][/\ result.status = "error" => UNCHANGED <<evars, rvars, hvars>>
       /\ (result = Running /\ result'.status = "error") =>
             /\ ctl' = "done"
             /\ work' = <<>>
             /\ result'.line = Last(fetched)
             /\ Len(trace') = Len(trace) + 1
             /\ variables' = variables
             /\ arrays' = arrays
             /\ IsPrefix(stdout, stdout')]_vars

\* LET Y = 2: PRINT "B";: LET Y = 1/0: PRINT "C" has failed at its third
\* statement and the compiler has run since
C4_Witness ==
    /\ result.status = "error" /\ result.msg = "division by zero"
    /\ Len(trace) >= 4 /\ trace[Len(trace)].k = "LetStatement"
    /\ trace[Len(trace) - 1].k = "PrintStatement"
    /\ trace[Len(trace) - 1].line = result.line
    /\ "Y" \in DOMAIN variables /\ variables["Y"] = NumberValue(Q(2))
    /\ stdout # <<>> /\ Last(stdout) = "B"
    /\ emitted # Nil

\* the decimal texts of n integers from a on, each d more than the last
Counting(a, d, n) == [i \in 1..n |-> ToString(a + d * (i - 1))]

\* the lines fetched when the body on line 20 runs n times
RECURSIVE BodyRuns(_)
BodyRuns(n) == IF n = 0 THEN <<>> ELSE <<20, 30>> \o BodyRuns(n - 1)

\* C5: FOR I = a TO b with a <= b and step 1, closed by NEXT I two lines
\* on: the body runs b-a+1 times with I = a, a+1, ..., b, the loop's entry
\* is gone from the loop table and the line after the NEXT runs next
C5_ForCountsUp ==
    ctl = "done" =>
    \A a, b \in 0..MaxLoopEnd : \A step \in {StepDefault, StepOne} :
    \A body \in LoopBodies :
        (a <= b /\ source = LoopSource(a, b, step, body)) =>
            /\ result = Success
            /\ fetched = <<10>> \o BodyRuns(b - a + 1) \o <<40>>
            /\ stdout = Counting(a, 1, b - a + 1) \o <<"E", "\n">>
            /\ "I" \notin DOMAIN forLoops

\* FOR I = 1 TO 3 has run its body three times
C5_Witness ==
    /\ source = LoopSource(1, 3, StepDefault, BodyPrint)
    /\ ctl = "done"
    /\ stdout = <<"1", "2", "3", "E", "\n">>
    /\ forLoops = EmptyMap

\* C6: FOR I = a TO b STEP -1 with a >= b, closed by NEXT I two lines on:
\* the body runs a-b+1 times with I = a, a-1, ..., b, in the interpreter
\* and in the emitted program
C6_ForCountsDown ==
    ctl = "done" =>
    \A a, b \in 0..MaxLoopEnd : \A body \in LoopBodies :
        (a >= b /\ source = LoopSource(a, b, StepDown, body)) =>
            /\ ctl = "done" =>
                  /\ result = Success
                  /\ fetched = <<10>> \o BodyRuns(a - b + 1) \o <<40>>
                  /\ stdout = Counting(a, -1, a - b + 1) \o <<"E", "\n">>
            /\ (go # NotBuilt /\ go.ctl = "done") =>
                  /\ go.result = Success
                  /\ go.fetched = <<10>> \o BodyRuns(a - b + 1) \o <<40>>
                  /\ go.stdout = Counting(a, -1, a - b + 1) \o <<"E", "\n">>

\* FOR I = 3 TO 0 STEP -1 has run its body four times in both
C6_Witness ==
    /\ source = LoopSource(3, 0, StepDown, BodyPrint)
    /\ ctl = "done" /\ go # NotBuilt /\ go.ctl = "done"
    /\ stdout = <<"3", "2", "1", "0", "E", "\n">>
    /\ go.stdout = stdout

\* the dispatch loop fetches a line in this step
Fetching == ctl = "loop" /\ ctl' = "eval"

\* the line fetched in this step is the one that follows line n
FetchingAfter(n) ==
    \E j \in 1..(Len(lines) - 1) : lines[j] = n /\ lineNum' = lines[j + 1]

\* C7 as stated: whenever a line has executed a GOSUB to T the line fetched
\* next is T, and whenever it has executed the RETURN of a GOSUB on line L
\* the line fetched next is the one that follows L
C7_GosubReturn ==
    [][Fetching =>
         \A i \in 1..Len(transfers) :
            /\ transfers[i].k = "GOSUB" => lineNum' = transfers[i].line
            /\ transfers[i].k = "RETURN" =>
                  FetchingAfter(transfers[i].line)]_vars

\* C7 for the last statement of a line that sets the program counter: when
\* that is a GOSUB to T the line fetched next is T; when it is the RETURN
\* of a GOSUB on line L before which nothing on line L had set the program
\* counter, the line fetched next is the one that follows L
C7_LastGosubReturn ==
    [][(Fetching /\ transfers # <<>>) =>
         /\ Last(transfers).k = "GOSUB" => lineNum' = Last(transfers).line
         /\ (Last(transfers).k = "RETURN" /\ Last(transfers).first) =>
               FetchingAfter(Last(transfers).line)]_vars

\* 10 GOSUB 30 / 20 END / 30 PRINT "A" / 40 RETURN has gone to 30 and come
\* back to 20
C7_Witness ==
    /\ source = Subroutine
    /\ fetched = <<10, 30, 40, 20>>
    /\ callStack = <<>>

\* C8: RETURN with an empty call stack fails with "RETURN without GOSUB"
\* and leaves the program counter, the call stack, the variables and the
\* loop table as they were: the interpreter's handler, and the emitted
\* program's case of a line that is a lone RETURN
C8_ReturnWithoutGosub ==
    [][/\ (/\ ctl = "eval" /\ work # <<>>
           /\ Head(work).k = "ReturnStatement" /\ callStack = <<>>
           /\ work' # work) =>
             /\ result' = Failure(Last(fetched), "RETURN without GOSUB")
             /\ UNCHANGED <<currentLine, callStack, variables, forLoops>>
       /\ (/\ go # NotBuilt /\ go.ctl = "loop" /\ go' # go
           /\ go.pc < Len(emitted.programLines) /\ ~go.halted
           /\ emitted.cases[go.pc + 1] = <<Ins("return", "", <<>>, <<>>)>>
           /\ go.callStack = <<>>) =>
             /\ go'.result = [status |-> "error",
                              msg |-> "RETURN without GOSUB"]
             /\ go'.pc = go.pc
             /\ go'.callStack = go.callStack
             /\ go'.vars = go.vars
             /\ go'.forLoops = go.forLoops]_vars

\* both the interpreter and the emitted program have failed at a RETURN,
\* with a variable set and a loop open
C8_Witness ==
    /\ result.status = "error" /\ result.msg = "RETURN without GOSUB"
    /\ go # NotBuilt /\ go.result.status = "error"
    /\ go.result.msg = "RETURN without GOSUB"
    /\ forLoops # EmptyMap /\ go.forLoops # EmptyMap
    /\ variables # EmptyMap

\* the line the emitted program's dispatch loop runs in this step
GoFetching == go # NotBuilt /\ go.ctl = "loop" /\ go'.steps = go.steps + 1

\* C9 as stated: whenever a line has executed a GOTO to a declared line T,
\* the next line the dispatch loop executes is T, in the interpreter and in
\* the emitted program
C9_GotoTarget ==
    [][/\ Fetching =>
             \A i \in 1..Len(transfers) :
                transfers[i].k = "GOTO" => lineNum' = transfers[i].line
       /\ GoFetching =>
             \A i \in 1..Len(go.transfers) :
                go.transfers[i].k = "GOTO" =>
                    Last(go'.fetched) = go.transfers[i].line]_vars

\* C9 for the last statement of a line that sets the program counter: when
\* that is a GOTO to a declared line T, the next line the dispatch loop
\* executes is T, in the interpreter and in the emitted program
C9_LastGotoTarget ==
    [][/\ (Fetching /\ transfers # <<>> /\ Last(transfers).k = "GOTO") =>
             lineNum' = Last(transfers).line
       /\ (GoFetching /\ go.transfers # <<>>
             /\ Last(go.transfers).k = "GOTO") =>
             Last(go'.fetched) = Last(go.transfers).line]_vars

\* a GOTO on the first line to the first line itself has been followed, by
\* the interpreter and by the emitted program
C9_Witness ==
    /\ Len(fetched) >= 2 /\ fetched[1] = 10 /\ fetched[2] = 10
    /\ trace[1].k = "GotoStatement"
    /\ go # NotBuilt /\ Len(go.fetched) >= 2
    /\ go.fetched[1] = 10 /\ go.fetched[2] = 10

\* the statements of a branch of an IF, a missing branch having none
BranchStatements(node) ==
    IF node = Nil THEN <<>>
    ELSE IF node.k = "SequenceStatement" THEN node.Statements
    ELSE <<node>>

StatementKind(kind) ==
    IF kind = "P" THEN "PrintStatement" ELSE "LetStatement"

\* the branch node holds exactly the statements Chain(branch, kinds, 1)
\* wrote, in order
IsBranch(node, branch, kinds) ==
    /\ Len(BranchStatements(node)) = Len(kinds)
    /\ \A i \in 1..Len(kinds) :
          /\ BranchStatements(node)[i].k = StatementKind(kinds[i])
          /\ kinds[i] = "P" =>
                BranchStatements(node)[i].Expressions
                    = <<StringLiteral(Marker(branch, i))>>
          /\ kinds[i] = "L" =>
                BranchStatements(node)[i].Name = Marker(branch, i)

\* what the statements of a branch write, and the variables they set
RECURSIVE BranchOutput(_, _, _)
BranchOutput(branch, kinds, i) ==
    IF i > Len(kinds) THEN <<>>
    ELSE (IF kinds[i] = "P" THEN <<Marker(branch, i), "\n">> ELSE <<>>)
         \o BranchOutput(branch, kinds, i + 1)

BranchVariables(branch, kinds) ==
    [n \in {Marker(branch, i) : i \in {j \in 1..Len(kinds) : kinds[j] = "L"}}
        |-> NumberValue(Q(CHOOSE i \in 1..Len(kinds) : Marker(branch, i) = n))]

\* the kinds of the PRINT and LET statements executed so far, in order
ExecutedKinds ==
    [i \in 1..Len(SelectSeq(trace, LAMBDA t :
                     t.k \in {"PrintStatement", "LetStatement"}))
       |-> SelectSeq(trace, LAMBDA t :
                     t.k \in {"PrintStatement", "LetStatement"})[i].k]

\* a number other than 0 or a string other than ""; a variable never set
\* reads as 0
TruthyCondition(c) ==
    \/ c.Type = "NUMBER" /\ c.Literal # "0"
    \/ c.Type = "STRING" /\ c.Literal # ""

\* the run of 10 IF c THEN s1: s2: ... [ELSE t1: t2: ...] / 20 PRINT "Z"
\* has executed exactly the statements of the chain `kinds` of `branch`,
\* in order, and then line 20
RanBranch(branch, kinds) ==
    /\ result = Success
    /\ ExecutedKinds = [i \in 1..Len(kinds) |-> StatementKind(kinds[i])]
                           \o <<"PrintStatement">>
    /\ stdout = BranchOutput(branch, kinds, 1) \o <<"Z", "\n">>
    /\ variables = BranchVariables(branch, kinds)

C10_WitnessFalsy ==
    /\ ctl = "done"
    /\ source = IfSource(S(""), <<"P", "L">>, <<"L", "P">>)
    /\ stdout = <<"T2", "\n", "Z", "\n">>
    /\ DOMAIN variables = {"T1"}

\* the text of a PRINT item: a string as it is, a number in its shortest
\* form, a variable never set as 0
ItemText(tok) == IF tok.Type = "IDENT" THEN "0" ELSE tok.Literal

SeparatorText(sep) == IF sep = "," THEN "\t" ELSE ""

\* what 10 PRINT item1 sep1 item2 ... [dangling] is to write
RECURSIVE PrintText(_, _, _, _)
PrintText(items, seps, dangling, i) ==
    IF i > Len(items)
    THEN (IF dangling = "" THEN "\n" ELSE SeparatorText(dangling))
    ELSE (IF i > 1 THEN SeparatorText(seps[i - 1]) ELSE "")
         \o ItemText(items[i]) \o PrintText(items, seps, dangling, i + 1)

\* the emitted program has run to its end
GoDone == go # NotBuilt /\ go.ctl = "done"

Names == {"A", "B", "X", "Y", "Q"}

C13_NoRunOnParseErrors ==
    [][errors' # <<>> =>
         /\ ctl' \notin {"start", "loop", "eval"}
         /\ trace' = trace
         /\ work' = <<>>
         /\ UNCHANGED <<lines, variables, arrays, forLoops, callStack>>
         /\ emitted' = Nil
         /\ go' = NotBuilt]_vars

\* the REPL has run a stored line, then rejected 20 LET = 1 and gone back
\* to its prompt without storing or running anything
C13_Witness ==
    /\ mode = "repl" /\ ctl = "repl"
    /\ source = LINE_20_BAD
    /\ errors # <<>>
    /\ Len(runs) = 1
    /\ DOMAIN stored = {10}

\* runFile has stopped at the errors of 10 PRINT "A" / 20 GOTO
C13_WitnessFile ==
    /\ mode = "file" /\ ctl = "done"
    /\ source = Concat(<<SourceLine(10, PRINT_A),
                         SourceLine(20, <<KW("GOTO")>>)>>)
    /\ errors # <<>>
    /\ result = [status |-> "parse errors"]
    /\ trace = <<>>

\* the words the programs spell in several casings
CaseWords ==
    {<<"P", "R", "I", "N", "T">>, <<"L", "E", "T">>, <<"I", "F">>,
     <<"T", "H", "E", "N">>, <<"E", "L", "S", "E">>, <<"A", "N", "D">>,
     <<"O", "R">>, <<"N", "O", "T">>, <<"M", "O", "D">>}

\* C14: a keyword in lower or mixed case yields the token kind of its
\* upper-case spelling, an identifier keeps its casing, and a statement
\* spelled in lower or mixed case runs as its upper-case spelling does, the
\* operator keywords AND, OR, NOT and MOD included
C14_KeywordCase ==
    /\ \A w \in CaseWords, c \in Casings :
          Spelled(w, c).Type = Join(w)
    /\ Word(<<"x">>) = Token("IDENT", "x")
    /\ (ctl = "done" /\ mode = "file") =>
          \A c \in Casings :
             \A e \in CaseStatements(c) :
                 source = SourceLine(10, e.toks) =>
                    /\ result = Success
                    /\ Bytes(stdout) = e.out

\* Run is about to be called on an evaluator with no variables, no arrays,
\* no open loops, no saved return indices and the halted flag clear
FreshAtStart ==
    ctl = "start" =>
        /\ variables = EmptyMap
        /\ arrays = EmptyMap
        /\ forLoops = EmptyMap
        /\ callStack = <<>>
        /\ ~halted

\* C15 as stated: every run begins with fresh state, and any two completed
\* runs of the same program on the same input wrote the same output and
\* returned the same outcome
C15_FreshAndReproducible ==
    /\ FreshAtStart
    /\ \A i, j \in 1..Len(runs) :
          (runs[i].program = runs[j].program
             /\ runs[i].input = runs[j].input) =>
              /\ runs[i].out = runs[j].out
              /\ runs[i].result = runs[j].result

\* C15 for runs in which no NEXT without a variable had to pick among
\* several open loops: every run begins with fresh state, and two such
\* runs of the same program on the same input wrote the same output and
\* returned the same outcome
C15_FreshAndReproducibleChoice ==
    /\ FreshAtStart
    /\ \A i, j \in 1..Len(runs) :
          (runs[i].program = runs[j].program
             /\ runs[i].input = runs[j].input
             /\ ~runs[i].chose /\ ~runs[j].chose) =>
              /\ runs[i].out = runs[j].out
              /\ runs[i].result = runs[j].result

\* 20 LET X = X + 1: PRINT X;: IF X THEN END has been run twice by the
\* REPL and has written 1 both times
C15_Witness ==
    /\ mode = "repl"
    /\ Len(runs) = 2
    /\ DOMAIN stored = {20} /\ stored[20] = LINE_20
    /\ runs[1].program = runs[2].program
    /\ runs[1].out = <<"1">> /\ runs[2].out = <<"1">>
    /\ halted /\ variables = ("X" :> NumberValue(Q(1)))

\* the emitted program's Value of an interpreter Value
GoValue(v) == IF v.Type = "NUMBER" THEN numVal(v.Num) ELSE strVal(v.Str)

\* the value INPUT is to leave in the target `name': the targets are
\* assigned in order, so it is that of the last position the name stands at
InputValue(targets, fields, name) ==
    Bind(CHOOSE i \in 1..Len(targets) :
            /\ targets[i] = name
            /\ \A j \in (i + 1)..Len(targets) : targets[j] # name,
         LAMBDA i : IF i <= Len(fields) THEN fields[i]
                    ELSE NumberValue(Q(0)))

\* the variables after 10 LET Z = 5: LET Y = 9 / 20 INPUT targets
AfterInput(targets, fields) ==
    [n \in {"Z", "Y"} \cup Range(targets) |->
        IF n \in Range(targets) THEN InputValue(targets, fields, n)
        ELSE IF n = "Z" THEN NumberValue(Q(5)) ELSE NumberValue(Q(9))]

\* C16: INPUT reads one line, splits it on commas and gives target i the
\* trimmed field i, a Number if it parses and a String otherwise, Number 0
\* to the targets beyond the fields, ignores surplus fields and leaves
\* the other variables alone; in the interpreter and the emitted program
C16_InputAssigns ==
    (ctl = "done" /\ mode = "file" /\ Len(input) = 1) =>
        \A targets \in Targets, l \in InputLines :
            (source = TargetSource(targets) /\ input = <<l.chars>>) =>
                /\ result = Success
                /\ reader = <<>>
                /\ variables = AfterInput(targets, l.fields)
                /\ stdout = <<"Z", "\n">>
                /\ GoDone =>
                      /\ go.result = Success
                      /\ go.reader = <<>>
                      /\ go.vars = [n \in DOMAIN AfterInput(targets, l.fields)
                                      |-> GoValue(AfterInput(targets,
                                                             l.fields)[n])]

\* 20 INPUT X, Y, W on the line " 1,x " has given X the number 1, Y the
\* string x and W the number 0, and has left Z alone, in both
C16_Witness ==
    /\ ctl = "done" /\ GoDone
    /\ source = TargetSource(<<"X", "Y", "W">>)
    /\ input = <<<<" ", "1", ",", "x", " ">>>>
    /\ variables = ("W" :> NumberValue(Q(0)) @@ "X" :> NumberValue(Q(1))
                     @@ "Y" :> StringValue("x") @@ "Z" :> NumberValue(Q(5)))
    /\ go.vars["Y"] = strVal("x")

\* C17: once END has executed no further statement of the program is
\* executed, neither a later line nor one chained after END on the same
\* line, and Run returns success
C17_EndHalts ==
    \A i \in 1..Len(trace) :
        trace[i].k = "EndStatement" =>
            /\ i = Len(trace)
            /\ ctl = "done" => result = Success

\* the part about later lines: after an END no statement of another line is
\* executed
C17_NoLaterLine ==
    \A i, j \in 1..Len(trace) :
        (trace[i].k = "EndStatement" /\ i < j) => trace[j].line = trace[i].line

\* evalStatement executes a GOTO or a GOSUB in this step and it succeeds
Jumping ==
    /\ ctl = "eval" /\ work # <<>>
    /\ Head(work).k \in {"GotoStatement", "GosubStatement"}
    /\ trace' # trace
    /\ result' = Running

\* C18: GOTO and GOSUB only set the program counter (GOSUB pushing the
\* old one): the statements left on the line, chained after the jump or
\* later in its IF branch, stay to be executed and are executed before a
\* line is fetched, and the line fetched next is the target of the last
\* jump the line executed
C18_JumpAtEndOfLine ==
    [][/\ Jumping =>
            /\ work' = Tail(work)
            /\ lineNum' = lineNum /\ fetched' = fetched /\ ctl' = "eval"
            /\ Len(transfers') = Len(transfers) + 1
            /\ currentLine' = IndexOfLine(lines, Last(transfers').line) - 1
            /\ UNCHANGED <<forLoops, halted, variables, arrays, reader,
                           stdout>>
            /\ IF Head(work).k = "GotoStatement" THEN UNCHANGED callStack
               ELSE callStack' = Append(callStack, currentLine)
       /\ Fetching => work = <<>>
       /\ (Fetching /\ transfers # <<>>
             /\ Last(transfers).k \in {"GOTO", "GOSUB"}) =>
               lineNum' = Last(transfers).line]_vars

\* 10 GOTO 30: GOSUB 20: PRINT "A" has printed A on line 10 after both
\* jumps and gone on with line 20, the target of the second
C18_Witness ==
    /\ source = JumpSource(GOTO_30, <<KW("GOSUB"), N(20)>>)
    /\ ctl = "done" /\ result = Success
    /\ [i \in 1..Len(trace) |-> trace[i].k] =
          <<"SequenceStatement", "GotoStatement", "GosubStatement",
            "PrintStatement", "SequenceStatement", "PrintStatement",
            "EndStatement">>
    /\ fetched = <<10, 20>>
    /\ Bytes(stdout) = "A\nB\n"

\* 10 IF 1 THEN GOSUB 20: GOTO 30: PRINT "A" has printed A in the branch
\* after both jumps and gone on with line 30
C18_WitnessIf ==
    /\ source = JumpInIfSource(<<KW("GOSUB"), N(20)>>, GOTO_30)
    /\ ctl = "done" /\ result = Success
    /\ fetched = <<10, 30>>
    /\ Bytes(stdout) = "A\nC\n"

\* the message of a failed resolution: the statement's name stands before
\* " requires a number"
JumpMessage(jump, d) ==
    IF d.msg = " requires a number" THEN jump \o d.msg ELSE d.msg

\* C19: both backends resolve the target of GOTO and GOSUB alike: a value
\* that is no Number fails with "requires a number", a Number is truncated
\* toward zero and must be a declared line, failing with "line N not found"
\* otherwise; a failure ends the run with nothing more executed, a
\* resolved target is the line that runs next
C19_TargetResolution ==
    \A jump \in {"GOTO", "GOSUB"}, d \in Destinations :
        source = DestinationSource(jump, d.expr) =>
            /\ ctl = "done" =>
                  IF d.msg = ""
                  THEN /\ result = Success
                       /\ fetched = <<10, d.line>>
                       /\ Bytes(stdout) =
                             "A\nZ\n" \o (IF d.line = 20 THEN "B" ELSE "C")
                                \o "\n"
                  ELSE /\ result = Failure(10, JumpMessage(jump, d))
                       /\ fetched = <<10>>
                       /\ Bytes(stdout) = "A\n"
                       /\ Last(trace).k \in {"GotoStatement",
                                               "GosubStatement"}
            /\ GoDone =>
                  IF d.msg = ""
                  THEN /\ go.result = Success
                       /\ go.fetched = <<10, d.line>>
                       /\ Bytes(go.stdout) = Bytes(stdout)
                  ELSE /\ go.result.status = "error"
                       /\ go.result.msg = JumpMessage(jump, d)
                       /\ go.fetched = <<10>>
                       /\ Bytes(go.stdout) = "A\n"

\* 10 PRINT "A": GOSUB -0.5: PRINT "Z" has failed with "line 0 not found"
\* after printing A only, interpreted and compiled
C19_Witness ==
    /\ source = DestinationSource("GOSUB", <<OP("-"), Token("NUMBER", "0.5")>>)
    /\ ctl = "done" /\ GoDone
    /\ result = Failure(10, "line 0 not found")
    /\ go.result.msg = "line 0 not found"
    /\ Bytes(go.stdout) = "A\n"

\* 10 PRINT "A": GOTO 20.5: PRINT "Z" has gone on with line 20 in both
C19_WitnessTruncated ==
    /\ source = DestinationSource("GOTO", <<Token("NUMBER", "20.5")>>)
    /\ ctl = "done" /\ GoDone
    /\ fetched = <<10, 20>> /\ go.fetched = <<10, 20>>

\* the number of statements of kind `kind' the run has executed
Executed(kind) == Cardinality({i \in 1..Len(trace) : trace[i].k = kind})

\* evalStatement executes a statement of kind `kind' in this step and the
\* run does not fail
Executing(kind) ==
    /\ ctl = "eval" /\ work # <<>> /\ Head(work).k = kind
    /\ trace' # trace
    /\ result' = Running

\* C20: GOSUB pushes the program-counter index, no line number, RETURN
\* pops the index pushed last and resumes there, so nested GOSUBs return
\* last in first out, and while the run has not failed the depth of the
\* call stack is the GOSUBs executed less the RETURNs executed
C20_CallStack ==
    /\ [](result.status # "error" =>
            /\ Len(callStack) =
                  Executed("GosubStatement") - Executed("ReturnStatement")
            /\ \A i \in 1..Len(callStack) :
                  callStack[i] \in -1..(Len(lines) - 1))
    /\ [][/\ Executing("GosubStatement") =>
                callStack' = Append(callStack, currentLine)
          /\ Executing("ReturnStatement") =>
                /\ callStack # <<>>
                /\ callStack' = SubSeq(callStack, 1, Len(callStack) - 1)
                /\ currentLine' = callStack[Len(callStack)]]_vars

\* in 10 GOSUB 25 / 15 PRINT "D" / 20 END / 25 GOSUB 35 / 30 RETURN /
\* 35 PRINT "A" / 40 RETURN line 35 runs with the indexes 0 and 3 of lines
\* 10 and 25 on the stack
C20_Witness ==
    /\ source = Nested
    /\ lineNum = 35 /\ ctl = "eval"
    /\ callStack = <<0, 3>>

\* and the run has returned to line 30 and then to line 15
C20_WitnessReturned ==
    /\ source = Nested
    /\ ctl = "done" /\ result = Success
    /\ fetched = <<10, 25, 35, 40, 30, 15, 20>>
    /\ callStack = <<>>

\* C21: whenever the dispatch loop fetches a statement the program counter
\* is an index into the sorted line list, whatever GOTOs, GOSUBs, RETURNs,
\* FORs and NEXTs the lines chained, and between fetches it is never below
\* -1 (nor has a loop or the call stack saved anything below -1)
C21_PcInRange ==
    /\ currentLine >= -1
    /\ (ctl = "loop" /\ ~halted /\ currentLine < Len(lines)) =>
          currentLine >= 0
    /\ (ctl = "eval") =>
          /\ currentLine < Len(lines)
          /\ fetched # <<>> /\ lineNum = Last(fetched)
          /\ \E i \in 1..Len(lines) : lines[i] = lineNum
    /\ \A i \in 1..Len(callStack) : callStack[i] >= -1
    /\ \A v \in DOMAIN forLoops : forLoops[v].StartLine >= -1

\* 10 GOTO 10: FOR I = 1 TO 2: NEXT I has left the program counter at -1
\* three times on a line (the GOTO, the FOR's saved index, the NEXT) and
\* line 10 has been fetched again
C21_Witness ==
    /\ source = PcSource(GOTO_10, FOR_I, NEXT_I)
    /\ ctl = "eval" /\ work = <<>>
    /\ currentLine = -1
    /\ Len(transfers) = 2
    /\ Len(fetched) >= 2

\* the execution of the FOR that opened the loop on v: the line holding
\* it, and whether it was the first statement of that line to touch the
\* program counter
ForOf(v) ==
    trace[CHOOSE i \in 1..Len(trace) :
            /\ trace[i].k = "ForStatement" /\ trace[i].v = v
            /\ \A j \in (i + 1)..Len(trace) :
                  ~(trace[j].k = "ForStatement" /\ trace[j].v = v)]

\* a NEXT that continues its loop stores the incremented value in the loop
\* variable, sets the program counter to the loop's resume index and leaves
\* the loop table alone
NextContinuing ==
    (Executing("NextStatement") /\ transfers' # transfers) =>
        \E v \in DOMAIN forLoops :
            /\ Head(work).Variable \in {"", v}
            /\ Last(transfers').v = v
            /\ variables' = MapSet(variables, v,
                                   NumberValue(NumAdd(variables[v].Num,
                                                      forLoops[v].Step)))
            /\ currentLine' = forLoops[v].StartLine
            /\ UNCHANGED forLoops

\* C22 as stated: a NEXT that continues stores the new value and sets the
\* program counter to the resume index, and the line executed next is the
\* one after the line holding the FOR
C22_NextResumes ==
    [][/\ NextContinuing
       /\ Fetching =>
             \A i \in 1..Len(transfers) :
                transfers[i].k = "NEXT" =>
                    FetchingAfter(ForOf(transfers[i].v).line)]_vars

\* C22 for a FOR before which nothing on its line had set the program
\* counter and a NEXT after which nothing on its line sets it again: the
\* line executed next is the one after the line holding the FOR, not the
\* FOR line
C22_NextResumesAfterFor ==
    [][/\ NextContinuing
       /\ (Fetching /\ transfers # <<>> /\ Last(transfers).k = "NEXT"
             /\ ForOf(Last(transfers).v).first) =>
               /\ FetchingAfter(ForOf(Last(transfers).v).line)
               /\ lineNum' # ForOf(Last(transfers).v).line]_vars

\* 10 FOR I = 1 TO 3 / 20 PRINT I; / 30 NEXT I / 40 PRINT "E" has gone from
\* line 30 back to line 20 twice, with I = 3 now
C22_Witness ==
    /\ source = LoopSource(1, 3, StepDefault, BodyPrint)
    /\ fetched = <<10, 20, 30, 20, 30, 20>>
    /\ variables["I"] = NumberValue(Q(3))

\* the lines fetched when the body on lines 25 and 30 runs n times
RECURSIVE InnerRuns(_)
InnerRuns(n) == IF n = 0 THEN <<>> ELSE <<25, 30>> \o InnerRuns(n - 1)

\* a FOR on a variable whose loop is open replaces the entry of the loop
\* table, the table growing by nothing
ForReplaces ==
    (Executing("ForStatement") /\ Head(work).Variable \in DOMAIN forLoops) =>
        /\ DOMAIN forLoops' = DOMAIN forLoops
        /\ forLoops'[Head(work).Variable].StartLine = currentLine
        /\ \A v \in DOMAIN forLoops \ {Head(work).Variable} :
              forLoops'[v] = forLoops[v]

\* the inner loop of SameVarSource(a, b, step, tail) has counted from 1 to
\* b by d, resuming on line 25, and line 35 has run with the outcome
\* `outcome'
InnerLoopRan(b, d, tail, outcome) ==
    /\ fetched = <<10, 15, 20>> \o InnerRuns((b - 1) \div d + 1) \o <<35>>
    /\ stdout = <<"A">> \o Counting(1, d, (b - 1) \div d + 1)
                  \o (IF tail = NEXT_I THEN <<>> ELSE <<"E", "\n">>)
    /\ result = outcome
    /\ forLoops = EmptyMap

\* C23 as stated: a FOR on a variable whose loop is open replaces the
\* entry, and the NEXT that closes the outer loop (line 35) uses the inner
\* loop's end, step and resume index: the variable being past the inner
\* end, it ends the loop and the run goes on
C23_OuterNextUsesInner ==
    /\ [][ForReplaces]_vars
    /\ [](ctl = "done" =>
            \A a \in {0, 3}, b \in 1..3, d \in 1..2, tail \in SameVarTails :
                source = SameVarSource(a, b, IF d = 1 THEN StepDefault
                                             ELSE StepTwo, tail) =>
                    InnerLoopRan(b, d, tail, Success))

\* C23 with the NEXT that follows the inner FOR using the inner loop's
\* end, step and resume index: the outer loop's are gone, and when that
\* NEXT has ended the loop the NEXT that closes the outer loop finds none
C23_SameVariableReplaces ==
    /\ [][ForReplaces]_vars
    /\ [](ctl = "done" =>
            \A a \in {0, 3}, b \in 1..3, d \in 1..2, tail \in SameVarTails :
                source = SameVarSource(a, b, IF d = 1 THEN StepDefault
                                             ELSE StepTwo, tail) =>
                    InnerLoopRan(b, d, tail,
                                 IF tail = NEXT_I
                                 THEN Failure(35, "NEXT without matching FOR")
                                 ELSE Success))

\* 10 FOR I = 0 TO 3 / 15 PRINT "A"; / 20 FOR I = 1 TO 3 STEP 2 /
\* 25 PRINT I; / 30 NEXT I / 35 PRINT "E": the one entry for I holds the
\* inner loop's end 3, step 2 and resume index 2, and the NEXT has used it
C23_Witness ==
    /\ source = SameVarSource(3, 3, StepTwo, <<KW("PRINT"), S("E")>>)
    /\ fetched = <<10, 15, 20, 25, 30, 25>>
    /\ forLoops = ("I" :> ForLoopState("I", Q(3), Q(2), 2))
    /\ variables["I"] = NumberValue(Q(3))

\* what evalNextStatement does to the open loop on v in this step: the
\* new value and the resume index when the loop goes on, the entry
\* removed when it does not, a failure when v holds no number
NextActsOn(v) ==
    IF v \notin DOMAIN variables \/ variables[v].Type # "NUMBER"
    THEN result'.status = "error" /\ UNCHANGED <<variables, forLoops,
                                                  currentLine>>
    ELSE /\ result' = Running
         /\ IF shouldContinue(NumAdd(variables[v].Num, forLoops[v].Step),
                              forLoops[v])
            THEN /\ variables' =
                      MapSet(variables, v,
                             NumberValue(NumAdd(variables[v].Num,
                                                forLoops[v].Step)))
                 /\ currentLine' = forLoops[v].StartLine
                 /\ UNCHANGED forLoops
            ELSE /\ forLoops' = MapDelete(forLoops, v)
                 /\ UNCHANGED <<variables, currentLine>>

\* evalStatement executes a NEXT in this step while loops are open
NextOnOpenLoops ==
    /\ ctl = "eval" /\ work # <<>> /\ Head(work).k = "NextStatement"
    /\ trace' # trace
    /\ forLoops # EmptyMap

\* the body runs of FOR I = a TO b STEP d closed two lines on
Iterations(a, b, d) ==
    IF d > 0 THEN (IF a <= b THEN b - a + 1 ELSE 1)
    ELSE (IF a >= b THEN a - b + 1 ELSE 1)

\* C24: a NEXT without a variable acts on a loop that is open: on the one
\* open loop exactly as the NEXT naming its variable does, on one of the
\* open loops when there are several; the emitted program's single loop
\* closed by a bare NEXT runs as the interpreter's
C24_BareNext ==
    /\ [][NextOnOpenLoops =>
            /\ (Head(work).Variable \in DOMAIN forLoops) =>
                  NextActsOn(Head(work).Variable)
            /\ (Head(work).Variable = "") =>
                  \E v \in DOMAIN forLoops : NextActsOn(v)]_vars
    /\ [](ctl = "done" =>
          \A a, b \in 0..MaxLoopEnd : \A d \in {-1, 1} :
            source = BareLoopSource(a, b, IF d = 1 THEN StepDefault
                                          ELSE StepDown) =>
                /\ result = Success
                /\ fetched = <<10>> \o BodyRuns(Iterations(a, b, d))
                                   \o <<40>>
                /\ stdout = Counting(a, d, Iterations(a, b, d))
                              \o <<"E", "\n">>
                /\ GoDone =>
                      /\ go.result = Success
                      /\ go.fetched = <<10>> \o BodyRuns(Iterations(a, b, d))
                                            \o <<40>>
                      /\ go.stdout = Counting(a, d, Iterations(a, b, d))
                                       \o <<"E", "\n">>)

\* in 10 FOR I = 1 TO 2 / 20 FOR J = 1 TO 1 / 30 NEXT / 40 NEXT the
\* interpreter's first NEXT has acted on I, the loop opened first, and the
\* emitted program's on J
C24_Witness ==
    /\ source = TwoLoops
    /\ Len(fetched) >= 4 /\ SubSeq(fetched, 1, 4) = <<10, 20, 30, 20>>
    /\ GoDone
    /\ Len(go.fetched) >= 4 /\ SubSeq(go.fetched, 1, 4) = <<10, 20, 30, 40>>

\* a single loop closed by a bare NEXT has run three times in both
C24_WitnessOneLoop ==
    /\ source = BareLoopSource(1, 3, StepDefault)
    /\ ctl = "done" /\ GoDone
    /\ stdout = <<"1", "2", "3", "E", "\n">> /\ go.stdout = stdout

\* the message NEXT fails with when the loop it is to act on is not open
NoLoopMessage(next) ==
    IF next = NEXT_ THEN "NEXT without FOR" ELSE "NEXT without matching FOR"

\* C25: a NEXT without a variable while no loop is open fails with "NEXT
\* without FOR" and a NEXT naming a variable whose loop is not open with
\* "NEXT without matching FOR"; the variables, the loop table and the
\* program counter stay as they were and the run is over, in the
\* interpreter and in the emitted program
C25_NextWithoutFor ==
    /\ [][(/\ ctl = "eval" /\ work # <<>>
            /\ Head(work).k = "NextStatement" /\ trace' # trace
            /\ Head(work).Variable \notin DOMAIN forLoops
            /\ (Head(work).Variable = "" => forLoops = EmptyMap)) =>
              /\ result' = Failure(lineNum,
                                   IF Head(work).Variable = ""
                                   THEN "NEXT without FOR"
                                   ELSE "NEXT without matching FOR")
              /\ ctl' = "done" /\ work' = <<>>
              /\ UNCHANGED <<variables, forLoops, currentLine, callStack,
                             stdout>>]_vars
    /\ [](ctl = "done" =>
          \A first \in {LET_X7, FOR_J}, next \in {NEXT_, NEXT_I} :
            (/\ source = NoLoopSource(first, next)
             /\ ~(first = FOR_J /\ next = NEXT_)) =>
                /\ result = Failure(20, NoLoopMessage(next))
                /\ fetched = <<10, 20>> /\ stdout = <<>>
                /\ currentLine = 1
                /\ DOMAIN variables = {IF first = LET_X7 THEN "X" ELSE "J"}
                /\ DOMAIN forLoops = (IF first = FOR_J THEN {"J"} ELSE {})
                /\ GoDone =>
                      /\ go.result.status = "error"
                      /\ go.result.msg = NoLoopMessage(next)
                      /\ go.fetched = <<10, 20>> /\ go.stdout = <<>>
                      /\ go.pc = 1
                      /\ DOMAIN go.vars = DOMAIN variables
                      /\ DOMAIN go.forLoops = DOMAIN forLoops)

\* 10 FOR J = 1 TO 2 / 20 NEXT I: PRINT "Z" / 30 PRINT "B" has failed on
\* line 20 in both with the loop on J still open and J = 1
C25_Witness ==
    /\ source = NoLoopSource(FOR_J, NEXT_I)
    /\ ctl = "done" /\ GoDone
    /\ result = Failure(20, "NEXT without matching FOR")
    /\ go.result.msg = "NEXT without matching FOR"
    /\ variables = ("J" :> NumberValue(Q(1)))
    /\ DOMAIN forLoops = {"J"} /\ DOMAIN go.forLoops = {"J"}

\* 10 LET X = 7 / 20 NEXT: PRINT "Z" / 30 PRINT "B" has failed on line 20
\* in both
C25_WitnessBare ==
    /\ source = NoLoopSource(LET_X7, NEXT_)
    /\ ctl = "done" /\ GoDone
    /\ result = Failure(20, "NEXT without FOR")
    /\ go.result.msg = "NEXT without FOR"

\* C26: the end and the step of a FOR are evaluated when the FOR executes
\* and kept as numbers in the loop state; assigning afterwards to the
\* variables they were computed from changes neither the bound nor the
\* step NEXT uses: FOR I = 1 TO N STEP S opened with N = 2 and S = 1 runs
\* its body for I = 1 and 2 whatever the body assigns to N and S
C26_BoundsEvaluatedOnce ==
    \A n \in 0..3, s \in 0..2 :
        source = MovingBoundSource(n, s) =>
            /\ "I" \in DOMAIN forLoops =>
                  forLoops["I"] = ForLoopState("I", Q(2), Q(1), 1)
            /\ ctl = "done" =>
                  /\ result = Success
                  /\ fetched = <<10, 15, 20, 25, 30, 20, 25, 30, 35>>
                  /\ stdout = <<"1", "2", "E", "\n">>
                  /\ variables = ("I" :> NumberValue(Q(2))
                                   @@ "N" :> NumberValue(Q(n))
                                   @@ "S" :> NumberValue(Q(s)))
            /\ GoDone =>
                  /\ go.result = Success
                  /\ go.fetched = <<10, 15, 20, 25, 30, 20, 25, 30, 35>>
                  /\ go.stdout = <<"1", "2", "E", "\n">>

\* the body has set N to 0 and S to 2 and the NEXT has gone on to I = 2
\* with the end 2 and the step 1 of the loop state
C26_Witness ==
    /\ source = MovingBoundSource(0, 2)
    /\ fetched = <<10, 15, 20, 25, 30, 20>>
    /\ variables = ("I" :> NumberValue(Q(2)) @@ "N" :> NumberValue(Q(0))
                     @@ "S" :> NumberValue(Q(2)))
    /\ forLoops["I"].End = Q(2) /\ forLoops["I"].Step = Q(1)

\* and the emitted program has run the same two iterations
C26_WitnessCompiled ==
    /\ source = MovingBoundSource(0, 2)
    /\ GoDone
    /\ go.stdout = <<"1", "2", "E", "\n">>

\* the step a STEP clause of the loop family stands for
StepOf(step) ==
    CASE step = StepDown -> -1
      [] step = StepTwo  -> 2
      [] OTHER           -> 1

\* C27: FOR makes no test on entry: it leaves the program counter alone,
\* and with the start past the end (above it with a positive step, below
\* it with a negative one) the lines between the FOR and its NEXT run
\* once, with the variable at the start value, before the NEXT ends the
\* loop
C27_NoEntryTest ==
    /\ [][Executing("ForStatement") =>
            /\ UNCHANGED <<currentLine, transfers>>
            /\ Head(work).Variable \in DOMAIN forLoops']_vars
    /\ [](ctl = "done" =>
          \A a, b \in 0..MaxLoopEnd : \A step \in LoopSteps :
          \A body \in LoopBodies :
            (/\ source = LoopSource(a, b, step, body)
             /\ IF StepOf(step) > 0 THEN a > b ELSE a < b) =>
                /\ result = Success
                /\ fetched = <<10, 20, 30, 40>>
                /\ stdout = <<ToString(a), "E", "\n">>
                /\ variables["I"] = NumberValue(Q(a))
                /\ GoDone =>
                      /\ go.result = Success
                      /\ go.fetched = <<10, 20, 30, 40>>
                      /\ go.stdout = <<ToString(a), "E", "\n">>)

\* FOR I = 3 TO 1 has run its body once, with I = 3, in both
C27_Witness ==
    /\ source = LoopSource(3, 1, StepDefault, BodyPrint)
    /\ ctl = "done" /\ GoDone
    /\ fetched = <<10, 20, 30, 40>>
    /\ stdout = <<"3", "E", "\n">> /\ go.stdout = stdout

\* FOR I = 0 TO 2 STEP -1 has run its body once, with I = 0
C27_WitnessDown ==
    /\ source = LoopSource(0, 2, StepDown, BodyPrint)
    /\ ctl = "done"
    /\ stdout = <<"0", "E", "\n">>

\* a NEXT that ends its loop removes the loop's entry and leaves the
\* variables, the loop variable among them, and the program counter alone
NextEnding ==
    (Executing("NextStatement") /\ transfers' = transfers) =>
        /\ UNCHANGED <<variables, currentLine>>
        /\ Cardinality(DOMAIN forLoops') = Cardinality(DOMAIN forLoops) - 1

\* the loop variable after 10 FOR I = a TO b [STEP 1] / 20 body / 30 NEXT I
\* / 40 PRINT "E" is `last', in the interpreter and the emitted program
LoopLeaves(a, b, last) ==
    \A step \in {StepDefault, StepOne}, body \in LoopBodies :
        source = LoopSource(a, b, step, body) =>
            /\ result = Success
            /\ variables["I"] = NumberValue(Q(last))
            /\ GoDone => go.vars["I"] = numVal(Q(last))

\* C28 as stated: NEXT stores the new value only when the loop goes on, so
\* after FOR I = a TO b with step 1 the variable is b
C28_VariableAfterLoop ==
    /\ [][NextEnding]_vars
    /\ [](ctl = "done" =>
            \A a, b \in 0..MaxLoopEnd : LoopLeaves(a, b, b))

\* C28 with a <= b: NEXT stores the new value only when the loop goes on,
\* so after FOR I = a TO b with step 1 the variable is b, not b + 1; with
\* a > b it is a, the body having run once
C28_VariableAfterCountingLoop ==
    /\ [][NextEnding]_vars
    /\ [](ctl = "done" =>
            \A a, b \in 0..MaxLoopEnd :
                LoopLeaves(a, b, IF a <= b THEN b ELSE a))

\* FOR I = 1 TO 3 is over and I is 3 in both
C28_Witness ==
    /\ source = LoopSource(1, 3, StepDefault, BodyPrint)
    /\ ctl = "done" /\ GoDone
    /\ "I" \notin DOMAIN forLoops
    /\ variables["I"] = NumberValue(Q(3))
    /\ go.vars["I"] = numVal(Q(3))

\* the step of a loop of the families, STEP 0 included
StepNumber(step) == IF step = StepZero THEN 0 ELSE StepOf(step)

\* the loops FOR I = a TO b [STEP s] over 0..2 whose body neither assigns
\* I nor jumps, with the steps -1, 0, 1 and 2: those of a nonzero step or
\* of a start below the end, and those of step 0 and a start at or above
\* the end
EndingLoops ==
    {LoopSource(a, b, step, BodyPrint) :
        a \in 0..2, b \in 0..2,
        step \in {st \in LoopSteps \cup {StepZero} : StepNumber(st) # 0}}
        \cup {LoopSource(p[1], p[2], StepZero, BodyPrint) :
                  p \in {q \in (0..2) \X (0..2) : q[1] < q[2]}}
EndlessLoops ==
    {LoopSource(p[1], p[2], StepZero, BodyPrint) :
        p \in {q \in (0..2) \X (0..2) : q[1] >= q[2]}}

\* the interpreter's runs of these loops: Run is a sequential loop, a step
\* that can be taken is taken
InitLoops == Init /\ source \in EndingLoops \cup EndlessLoops
NextLoops ==
    \/ ParseSource
    \/ RunStart
    \/ RunFetch
    \/ RunAdvance
    \/ RunExit
    \/ evalPrintStatement
    \/ evalForStatement
    \/ evalNextStatement
\* the steps of Run's loop, the fetch, the statement and the increment
RunLoops ==
    \/ RunStart
    \/ RunFetch
    \/ RunAdvance
    \/ RunExit
    \/ evalPrintStatement
    \/ evalForStatement
    \/ evalNextStatement
SpecLive == InitLoops /\ [][NextLoops]_vars /\ WF_vars(RunLoops)

\* the loop on I is open and line 20, the body, is being executed
InBody == lineNum = 20 /\ ctl = "eval" /\ "I" \in DOMAIN forLoops

\* C29: a loop over integers whose body neither assigns the loop variable
\* nor jumps ends after finitely many NEXTs when its step is not zero or
\* its start is below its end, the run going on to its end; with step 0
\* and the start at or above the end every NEXT goes back to the body
\* with the variables and the loop state it found, so the loop is never
\* left
C29_LoopTermination ==
    /\ (source \in EndingLoops /\ InBody)
          ~> ("I" \notin DOMAIN forLoops /\ ctl = "done" /\ result = Success)
    /\ [](source \in EndlessLoops =>
            /\ ctl # "done"
            /\ (fetched # <<>> => Last(fetched) # 40)
            /\ (Len(fetched) > 1 => "I" \in DOMAIN forLoops))
    /\ [][(source \in EndlessLoops /\ Executing("NextStatement")) =>
            /\ UNCHANGED <<variables, forLoops, callStack, halted, arrays,
                           reader>>
            /\ currentLine' = 0]_vars

\* FOR I = 0 TO 2 STEP 0 has left its loop at the first NEXT
C29_Witness ==
    /\ source = LoopSource(0, 2, StepZero, BodyPrint)
    /\ ctl = "done" /\ result = Success
    /\ fetched = <<10, 20, 30, 40>>

\* FOR I = 2 TO 2 STEP 0 is in its body for the fifth time
C29_WitnessEndless ==
    /\ source = LoopSource(2, 2, StepZero, BodyPrint)
    /\ fetched = <<10, 20, 30, 20, 30, 20, 30, 20, 30, 20>>
    /\ variables["I"] = NumberValue(Q(2))

\* what DIM A(size) on line 20 leaves after a statement pre on line 10: a
\* failure on line 20 with the arrays as pre left them when the size
\* fails to evaluate or is no Number, else A bound to an empty array
DimLeaves(pre, size, res, arrs) ==
    IF size \in DimFailing
    THEN /\ res.status = "error"
         /\ size = <<S("S")>> => res.msg = "DIM size must be a number"
         /\ "A" \in DOMAIN arrs <=> pre = DIM_A3
    ELSE /\ res = Success
         /\ "A" \in DOMAIN arrs /\ arrs["A"] = EmptyMap

\* the interpreter's half
DimInterpreted ==
    ctl = "done" =>
        \A pre \in {REM_, DIM_A3}, size \in DimSizes :
            source = DimSource(pre, size) =>
                /\ DimLeaves(pre, size, result, arrays)
                /\ size \in DimFailing => result.line = 20

\* C30: in the interpreter and in the emitted program DIM evaluates its
\* size, fails when the evaluation fails or gives no Number, and otherwise
\* binds the name to a new empty array in place of the one it had
C30_Dim ==
    /\ DimInterpreted
    /\ GoDone =>
          \A pre \in {REM_, DIM_A3}, size \in DimSizes :
              source = DimSource(pre, size) =>
                  DimLeaves(pre, size, go.result, go.arrays)

\* the emitted program of 10 REM / 20 DIM A("S") / 30 PRINT "E" has run to
\* its end where the interpreter failed on line 20
C30_Diverges ==
    /\ source = DimSource(REM_, <<S("S")>>)
    /\ ctl = "done" /\ result = Failure(20, "DIM size must be a number")
    /\ GoDone /\ go.result = Success
    /\ "A" \in DOMAIN go.arrays /\ "A" \notin DOMAIN arrays

\* every array of a table of arrays is empty
AllEmpty(arrs) == \A n \in DOMAIN arrs : arrs[n] = EmptyMap

\* the index expressions of a read, with those whose evaluation fails
ReadIndexes ==
    {NumberLiteral(Q(0)), NumberLiteral(Q(7)), StringLiteral("s"),
     Identifier("X"), PrefixExpression("-", NumberLiteral(Q(1))),
     InfixExpression("/", NumberLiteral(Q(1)), NumberLiteral(Q(0)))}

\* C31: no statement stores into an element of an array: in every state
\* reached every declared array is empty, in the interpreter and in the
\* emitted program, and a read of an element either fails or yields
\* Number 0; the runs of 10 DIM A(3) / 20 read of A(index) / 30 DIM A(3)
\* yield 0 or fail on the index, and the statements written to store into
\* A(0) do not parse or assign the scalar A
C31_ArraysStayEmpty ==
    /\ AllEmpty(arrays)
    /\ go # NotBuilt => AllEmpty(go.arrays)
    /\ \A n \in Names, i \in ReadIndexes :
          /\ evalExpression(ArrayAccess(n, i), variables, arrays).ok =>
                evalExpression(ArrayAccess(n, i), variables, arrays)
                    = Ok(NumberValue(Q(0)))
          /\ go # NotBuilt =>
                \A v \in {numVal(Q(0)), numVal(Q(7)), numVal(Q(-1)),
                           strVal("s")} :
                    arrayAccess(go.arrays, n, v).ok =>
                        arrayAccess(go.arrays, n, v) = GoOk(numVal(Q(0)))
    /\ (ctl = "done" /\ source[2] = KW("DIM")) =>
          /\ \A read \in {"PRINT", "LET"}, index \in Indexes :
                source = ArraySource(DIM_A3, read, index) =>
                    IF index = <<S("s")>>
                    THEN /\ result = Failure(20, "array index must be a number")
                         /\ GoDone => go.result.status = "error"
                    ELSE /\ result = Success
                         /\ read = "PRINT" => Bytes(stdout) = "0\n"
                         /\ read = "LET" => variables["Y"] = NumberValue(Q(0))
                         /\ GoDone =>
                               /\ go.result = Success
                               /\ read = "PRINT" => Bytes(go.stdout) = "0\n"
                               /\ read = "LET" => go.vars["Y"] = numVal(Q(0))
          /\ \A attempt \in StoreAttempts :
                source = StoreSource(attempt) =>
                    \/ errors # <<>> /\ trace = <<>>
                    \/ result.status = "error"
                    \/ /\ result = Success /\ Bytes(stdout) = "0\n"
                       /\ GoDone => Bytes(go.stdout) = "0\n"

\* 10 DIM A(3) / 20 LET A = 5 / 30 PRINT A(0) has printed 0 in both, the
\* scalar A holding 5 and the array A empty
C31_Witness ==
    /\ source = StoreSource(<<KW("LET"), ID("A"), OP("="), N(5)>>)
    /\ ctl = "done" /\ GoDone
    /\ variables["A"] = NumberValue(Q(5)) /\ arrays["A"] = EmptyMap
    /\ Bytes(stdout) = "0\n" /\ Bytes(go.stdout) = "0\n"

\* 10 DIM A(3) / 20 PRINT A(7) / 30 DIM A(3) has printed 0 in both
C31_WitnessRead ==
    /\ source = ArraySource(DIM_A3, "PRINT", <<N(7)>>)
    /\ ctl = "done" /\ GoDone
    /\ Bytes(stdout) = "0\n" /\ Bytes(go.stdout) = "0\n"

\* the number an operand token of kind NUMBER stands for
OperandNumber(t) == CHOOSE i \in 0..MaxLiteral : ToString(i) = t.Literal

\* what l op r is to give: the text PRINT writes for its value, or the
\* error; kind(t) is how the error names an operand
Gives(text) == [ok |-> TRUE, text |-> text, err |-> ""]
Fails(msg)  == [ok |-> FALSE, text |-> "", err |-> msg]
OperatorTable(l, op, r) ==
    IF l.Type = "NUMBER" /\ r.Type = "NUMBER"
    THEN LET a == OperandNumber(l)
             b == OperandNumber(r)
             truth(c) == Gives(IF c THEN "1" ELSE "0")
         IN  CASE op.Literal = "+" -> Gives(ToString(a + b))
               [] op.Literal = "-" ->
                     Gives(IF a < b THEN "-" \o ToString(b - a)
                           ELSE ToString(a - b))
               [] op.Literal = "*" -> Gives(ToString(a * b))
               [] op.Literal = "/" ->
                     IF b = 0 THEN Fails("division by zero")
                     ELSE Gives(FormatG(Rat(a, b)))
               [] op.Literal = "MOD" -> Gives(ToString(a % b))
               [] op.Literal = "<"   -> truth(a < b)
               [] op.Literal = ">"   -> truth(a > b)
               [] op.Literal = "<="  -> truth(a <= b)
               [] op.Literal = ">="  -> truth(a >= b)
               [] op.Literal = "=="  -> truth(a = b)
               [] op.Literal = "<>"  -> truth(a # b)
               [] op.Literal = "AND" -> truth(a # 0 /\ b # 0)
               [] op.Literal = "OR"  -> truth(a # 0 \/ b # 0)
    ELSE IF l.Type = "STRING" /\ r.Type = "STRING"
            /\ op.Literal \in {"+", "==", "<>"}
    THEN CASE op.Literal = "+"  -> Gives(l.Literal \o r.Literal)
           [] op.Literal = "==" -> Gives(IF l.Literal = r.Literal THEN "1" ELSE "0")
           [] op.Literal = "<>" -> Gives(IF l.Literal # r.Literal THEN "1" ELSE "0")
    ELSE Fails("unsupported operation: " \o l.Type \o " " \o op.Literal
               \o " " \o r.Type)

\* the interpreter's half: 10 PRINT l op r writes the value or fails with
\* the error of the table
InfixInterpreted ==
    (ctl = "done" /\ Len(source) = 6 /\ source[4] \in BinaryOperators
       /\ source[3] \in Operands /\ source[5] \in Operands) =>
        LET t == OperatorTable(source[3], source[4], source[5])
        IN  IF t.ok THEN result = Success /\ Bytes(stdout) = t.text \o "\n"
            ELSE result = Failure(10, t.err) /\ stdout = <<>>

\* C32: for every binary operator and pair of operand types, in the
\* interpreter and in the emitted program: two Numbers support the thirteen
\* operators, / failing on a zero divisor; two Strings support +, == and
\* <>; every other combination fails with "unsupported operation" naming
\* both operand kinds and the operator
C32_OperatorTable ==
    /\ InfixInterpreted
    /\ (GoDone /\ Len(source) = 6 /\ source[4] \in BinaryOperators
        /\ source[3] \in Operands /\ source[5] \in Operands) =>
          LET t == OperatorTable(source[3], source[4], source[5])
          IN  IF t.ok
              THEN go.result = Success /\ Bytes(go.stdout) = t.text \o "\n"
              ELSE /\ go.result = [status |-> "error", msg |-> t.err]
                   /\ go.stdout = <<>>

\* the emitted program of 10 PRINT 2 + "a" has failed naming the operands'
\* values where the interpreter names their kinds
C32_Diverges ==
    /\ source = OperatorSource(N(2), OP("+"), S("a"))
    /\ ctl = "done" /\ GoDone
    /\ result = Failure(10, "unsupported operation: NUMBER + STRING")
    /\ go.result = [status |-> "error", msg |-> "unsupported operation: 2 + a"]

\* the error the evaluation of a right operand fails with
RightError(r) ==
    IF r = DIV_ZERO THEN "division by zero" ELSE "array B not defined"

\* C33: AND and OR evaluate both operands before combining them: when the
\* right operand fails to evaluate the expression fails with its error,
\* also when the left operand alone decides the result, in the
\* interpreter and in the emitted program; when it evaluates, 1 or 0 is
\* written
C33_BothOperandsEvaluated ==
    ctl = "done" =>
        \A l \in LogicLefts, op \in {"AND", "OR"}, r \in LogicRights :
            source = LogicSource(l, op, r) =>
                IF r \in {DIV_ZERO, READ_B}
                THEN /\ result = Failure(10, RightError(r))
                     /\ stdout = <<>>
                     /\ GoDone =>
                           /\ go.result = [status |-> "error",
                                           msg |-> RightError(r)]
                           /\ go.stdout = <<>>
                ELSE /\ result = Success
                     /\ Bytes(stdout) \in {"0\n", "1\n"}
                     /\ Bytes(stdout) = "1\n" <=>
                           IF op = "AND" THEN l = N(1) /\ r = <<N(1)>>
                           ELSE l = N(1) \/ r = <<N(1)>>
                     /\ GoDone => /\ go.result = Success
                                  /\ Bytes(go.stdout) = Bytes(stdout)

\* 10 PRINT 0 AND (1/0) has failed with division by zero in both
C33_Witness ==
    /\ source = LogicSource(N(0), "AND", DIV_ZERO)
    /\ ctl = "done" /\ GoDone
    /\ result = Failure(10, "division by zero")
    /\ go.result = [status |-> "error", msg |-> "division by zero"]

\* C34: an INPUT whose prompt is followed by "," parses without any error
\* as one whose prompt is followed by ";" does, with the same prompt and
\* the same targets
C34_PromptSeparator ==
    ctl # "parse" =>
        \A sep \in {";", ","}, targets \in {<<"X">>, <<"X", "Y">>} :
            source = PromptSource(sep, targets) =>
                /\ errors = <<>>
                /\ DOMAIN program = {10}
                /\ program[10] = InputStatement("N", targets)

\* 10 INPUT "N", X, Y has parsed to the statement of 10 INPUT "N"; X, Y
\* with one error recorded, and was not run
C34_Diverges ==
    /\ source = PromptSource(",", <<"X", "Y">>)
    /\ ctl = "done" /\ result.status = "parse errors"
    /\ program[10] = InputStatement("N", <<"X", "Y">>)
    /\ errors = <<"expected next token to be ;, got , instead">>

\* an operand of the expression is missing
RECURSIVE MissingOperand(_)
MissingOperand(e) ==
    CASE e.k = "nil" -> TRUE
      [] e.k = "InfixExpression" ->
            MissingOperand(e.Left) \/ MissingOperand(e.Right)
      [] e.k = "PrefixExpression" -> MissingOperand(e.Right)
      [] e.k = "ArrayAccess" -> MissingOperand(e.Index)
      [] OTHER -> FALSE

\* an expression of the statement, or of a statement in it, has a missing
\* operand
RECURSIVE MissingIn(_)
MissingIn(stmt) ==
    CASE stmt.k = "PrintStatement" ->
            \E i \in 1..Len(stmt.Expressions) :
                MissingOperand(stmt.Expressions[i])
      [] stmt.k = "LetStatement" -> MissingOperand(stmt.Value)
      [] stmt.k = "IfStatement" ->
            \/ MissingOperand(stmt.Condition)
            \/ MissingIn(stmt.Consequence)
            \/ MissingIn(stmt.Alternative)
      [] stmt.k \in {"GotoStatement", "GosubStatement"} ->
            MissingOperand(stmt.LineNumber)
      [] stmt.k = "ForStatement" ->
            \/ MissingOperand(stmt.Start) \/ MissingOperand(stmt.End)
            \/ MissingOperand(stmt.Step)
      [] stmt.k = "DimStatement" -> MissingOperand(stmt.Size)
      [] stmt.k = "ExpressionStatement" -> MissingOperand(stmt.Expression)
      [] stmt.k = "SequenceStatement" ->
            \E i \in 1..Len(stmt.Statements) : MissingIn(stmt.Statements[i])
      [] OTHER -> FALSE

\* the text applies "(" to an expression that is no identifier
IsCallSource == source \in CallSources

\* C35: a program parsed with an empty error list has no missing operand,
\* the interpreter does not fail with "unknown expression type" and the
\* compiler does not fail with "unsupported expression"
C35_NoMissingOperand ==
    (ctl # "parse" /\ errors = <<>>) =>
        /\ \A n \in DOMAIN program : ~MissingIn(program[n])
        /\ result.status = "error" => result.msg # "unknown expression type"
        /\ emitted # Nil => emitted.err # "compiler: unsupported expression"

\* the same of the texts that do not apply "(" to a non-identifier
NoMissingOperandElsewhere == IsCallSource \/ C35_NoMissingOperand

\* 10 LET X = 1( has parsed without an error to a LET with no value: the
\* interpreter failed with "unknown expression type" and the compiler
\* with "unsupported expression"
C35_Diverges ==
    /\ source = SourceLine(10, <<KW("LET"), ID("X"), OP("="), N(1), OP("(")>>)
    /\ ctl = "done" /\ errors = <<>>
    /\ program[10] = LetStatement("X", Nil)
    /\ result = Failure(10, "unknown expression type")
    /\ emitted # Nil /\ emitted.err = "compiler: unsupported expression"

\* the statement of 20 PRINT "A"
PrintA == PrintStatement(<<StringLiteral("A")>>, <<>>, TRUE)

\* parsing goes on to the end of the text after an error: the line after
\* the erroneous line 10 is in the Program
ParseReachesEnd ==
    ctl # "parse" =>
        \A b \in BadStatements :
            source = Concat(<<SourceLine(10, b), SourceLine(20, PRINT_A)>>) =>
                /\ errors # <<>>
                /\ 20 \in DOMAIN program /\ program[20] = PrintA

\* C36: parsing does not stop at the first error, and after an error it
\* resumes at the next line: the tokens left on the erroneous line are not
\* parsed as statements or line numbers, so the Program has entries for
\* the lines 10 and 20 of the text only
C36_ParseResumes ==
    /\ ParseReachesEnd
    /\ ctl # "parse" =>
          \A b \in BadStatements :
              \/ source = Concat(<<SourceLine(10, b), SourceLine(20, PRINT_A)>>)
              \/ source = Concat(<<SourceLine(10, PRINT_A), SourceLine(20, b)>>)
              => DOMAIN program \subseteq {10, 20}

\* 10 LET = 1 / 20 PRINT "A" has parsed to a Program with entries for the
\* lines 0 and 1 besides 10 and 20, and three errors
C36_Diverges ==
    /\ ctl = "done"
    /\ source = Concat(<<SourceLine(10, <<KW("LET"), OP("="), N(1)>>),
                         SourceLine(20, PRINT_A)>>)
    /\ DOMAIN program = {0, 1, 10, 20}
    /\ program[20] = PrintA
    /\ Len(errors) = 3

\* the level of a binary operator: logical 1, equality 2, relational 3,
\* additive 4, multiplicative 5
Level(op) ==
    CASE op \in {"AND", "OR"} -> 1
      [] op \in {"==", "<>"} -> 2
      [] op \in {"<", ">", "<=", ">="} -> 3
      [] op \in {"+", "-"} -> 4
      [] op \in {"*", "/", "MOD"} -> 5

One   == NumberLiteral(Q(1))
Two   == NumberLiteral(Q(2))
Three == NumberLiteral(Q(3))

\* C37: of two adjacent binary operators the one of the higher level binds
\* tighter and operators of one level associate to the left; a prefix
\* operator binds tighter than every binary operator, and the array index
\* tighter than a prefix operator
C37_Precedence ==
    (ctl # "parse" /\ source \in PrecedenceSources) =>
        /\ errors = <<>>
        /\ \A op1 \in BinaryOperators, op2 \in BinaryOperators :
              source = TwoOperators(op1, op2) =>
                  program[10].Value =
                      IF Level(op2.Literal) > Level(op1.Literal)
                      THEN InfixExpression(op1.Literal, One,
                               InfixExpression(op2.Literal, Two, Three))
                      ELSE InfixExpression(op2.Literal,
                               InfixExpression(op1.Literal, One, Two), Three)
        /\ \A pre \in PrefixOperators :
              /\ \A op \in BinaryOperators :
                    source = PrefixThenBinary(pre, op) =>
                        program[10].Value =
                            InfixExpression(op.Literal,
                                PrefixExpression(pre.Literal, One), Two)
              /\ source = PrefixThenIndex(pre) =>
                    program[10].Value =
                        PrefixExpression(pre.Literal, ArrayAccess("A", One))

\* 10 LET X = 1 - 2 * 3 has assigned -5 in both, and the multiplication is
\* the right operand of the subtraction
C37_Witness ==
    /\ source = TwoOperators(OP("-"), OP("*"))
    /\ ctl = "done" /\ GoDone
    /\ program[10].Value.Operator = "-" /\ program[10].Value.Left = One
    /\ variables["X"] = NumberValue(Q(-5))
    /\ go.vars["X"] = numVal(Q(-5))

\* 10 LET X = 1 OR 2 AND 0 ... : AND and OR are of one level, 1 AND 2 OR 3
\* has parsed as (1 AND 2) OR 3 and 1 OR 2 AND 3 as (1 OR 2) AND 3
C37_WitnessLogical ==
    /\ source = TwoOperators(KW("OR"), KW("AND"))
    /\ ctl = "done"
    /\ program[10].Value
          = InfixExpression("AND", InfixExpression("OR", One, Two), Three)

\* the characters the token LexStep appends was read from
TokenChars == Slice(lexerInput, skipWhitespace(lexerInput, position), position')

\* C38: every NUMBER token the lexer produces is an unsigned sequence of
\* digits with at most one decimal point
C38_NumberTokens ==
    [][(ctl = "lex" /\ Last(source').Type = "NUMBER") =>
          /\ Last(source').Literal = Join(TokenChars)
          /\ TokenChars # <<>> /\ isDigit(TokenChars[1])
          /\ \A i \in 1..Len(TokenChars) :
                isDigit(TokenChars[i]) \/ TokenChars[i] = "."
          /\ Cardinality({i \in 1..Len(TokenChars) : TokenChars[i] = "."})
                <= 1]_vars

\* the text 1.. has been lexed to one NUMBER token with two decimal points
C38_Diverges ==
    /\ mode = "lex" /\ ctl = "lexed"
    /\ lexerInput = <<"1", ".", ".">>
    /\ source = <<Token("NUMBER", "1.."), EOFToken>>

\* NUMBER tokens are read from digits and decimal points and start with a
\* digit
NumberTokensAreDigitsAndPoints ==
    [][(ctl = "lex" /\ Last(source').Type = "NUMBER") =>
          /\ Last(source').Literal = Join(TokenChars)
          /\ TokenChars # <<>> /\ isDigit(TokenChars[1])
          /\ \A i \in 1..Len(TokenChars) :
                isDigit(TokenChars[i]) \/ TokenChars[i] = "."]_vars


(***************************************************************************)
(* The REPL's LOAD and DELETE                                               *)
(***************************************************************************)
\* runREPL is about to read a LOAD
Loading ==
    /\ mode = "repl" /\ ctl = "repl"
    /\ session # <<>> /\ Head(session).cmd = "LOAD"

\* a non-empty line that fails to parse or does not start with a line
\* number
BadLine(rawLine) ==
    /\ rawLine # <<>>
    /\ \/ Head(rawLine).Type # "NUMBER"
       \/ Len(ParseProgram(rawLine).errors) > 0
CannotLoad(file) ==
    \/ file.err
    \/ \E i \in 1..Len(file.content) : BadLine(file.content[i])

\* the lines of a file by their numbers, the last of a number standing
FileBuffer(content) ==
    [num \in {DigitsValue(Head(content[i]).Literal) :
                 i \in {j \in 1..Len(content) : content[j] # <<>>}} |->
        content[CHOOSE i \in 1..Len(content) :
                   /\ content[i] # <<>>
                   /\ DigitsValue(Head(content[i]).Literal) = num
                   /\ \A j \in (i + 1)..Len(content) :
                         content[j] = <<>>
                         \/ DigitsValue(Head(content[j]).Literal) # num]]

\* LOAD has reported the lines it loaded
Loaded == Len(stdout') = Len(stdout) + 2

\* no evaluator has been made or run
NothingExecuted ==
    /\ runs' = runs /\ trace' = trace /\ result' = result
    /\ variables' = variables /\ ctl' # "start"

\* C39: LOAD is all-or-nothing.  When the file cannot be read, or a
\* non-empty line of it fails to parse or does not start with a line number,
\* the REPL goes on with the line buffer it had and has executed no
\* statement; when LOAD succeeds the buffer is the file's lines and holds
\* nothing of the buffer before.
C39_LoadAllOrNothing ==
    [][Loading =>
          /\ CannotLoad(Head(session).file) =>
                /\ ctl' = "repl" /\ stored' = stored
                /\ NothingExecuted
          /\ Loaded => stored' = FileBuffer(Head(session).file.content)
      ]_vars

\* a line of the file the parser panics on
PanicLine(file) ==
    /\ ~file.err
    /\ \E i \in 1..Len(file.content) :
          file.content[i] # <<>> /\ ParseProgram(file.content[i]).panic

\* the same for the files no line of which has a number that is no integer:
\* this holds
LoadAllOrNothingOfIntegers ==
    [][(Loading /\ ~PanicLine(Head(session).file)) =>
          /\ CannotLoad(Head(session).file) =>
                /\ ctl' = "repl" /\ stored' = stored
                /\ NothingExecuted
                /\ Len(stderr') = Len(stderr) + 1
          /\ ~CannotLoad(Head(session).file) =>
                (Loaded \/ \E i \in 1..Len(Head(session).file.content) :
                              0 \in DOMAIN ParseProgram(
                                    Head(session).file.content[i]).Statements)
          /\ Loaded => /\ stored' = FileBuffer(Head(session).file.content)
                       /\ NothingExecuted
      ]_vars

\* LOAD of a file with the line 2.5 PRINT "A" while the buffer holds the
\* lines 10 and 30: the process has ended in a panic, the RUN after the
\* LOAD unread
C39_Diverges ==
    /\ mode = "repl" /\ ctl = "exit"
    /\ session = <<Run(<<>>)>>
    /\ DOMAIN stored = {10, 30}

\* a LOAD that failed has left the lines 10 and 30, and one that succeeded
\* has replaced them
LoadRefused ==
    /\ mode = "repl" /\ ctl = "repl"
    /\ session = <<Run(<<>>)>>
    /\ Len(stderr) = 1
    /\ DOMAIN stored = {10, 30}
LoadReplaced ==
    /\ mode = "repl" /\ ctl = "repl"
    /\ session = <<Run(<<>>)>>
    /\ stderr = <<>>
    /\ DOMAIN stored = {10, 20}
    /\ stored[10] = LINE_10_B


\* runREPL is about to read a DELETE
Deleting ==
    /\ mode = "repl" /\ ctl = "repl"
    /\ session # <<>> /\ Head(session).cmd = "DELETE"

\* the argument n-m or n, n and m written in digits, blanks around them
\* allowed, and the numbers it names
IsSingle(arg) == AllDigits(arg)
DashAt(arg, i) ==
    /\ arg[i] = "-"
    /\ AllDigits(TrimSpace(SubSeq(arg, 1, i - 1)))
    /\ AllDigits(TrimSpace(SubSeq(arg, i + 1, Len(arg))))
IsRange(arg) == \E i \in 1..Len(arg) : DashAt(arg, i)
RangeOf(arg) ==
    IF IsSingle(arg) THEN [n |-> Decimal(arg, 0), m |-> Decimal(arg, 0)]
    ELSE Bind(CHOOSE i \in 1..Len(arg) : DashAt(arg, i), LAMBDA i :
         [n |-> Decimal(TrimSpace(SubSeq(arg, 1, i - 1)), 0),
          m |-> Decimal(TrimSpace(SubSeq(arg, i + 1, Len(arg))), 0)])
WellFormed(arg) ==
    /\ IsSingle(arg) \/ IsRange(arg)
    /\ RangeOf(arg).n <= RangeOf(arg).m

\* what DELETE prints of the number of lines it removed
DeleteReport(count) ==
    IF count = 0 THEN "No matching lines to delete\n"
    ELSE "Deleted " \o ToString(count) \o " line(s)\n"

\* C40: DELETE n-m, or DELETE n for n-n, removes from the line buffer
\* exactly the stored lines with a number in [n, m], reports how many it
\* removed and leaves every other line as it was; when the argument is
\* malformed or m < n it reports an error and removes nothing, and a DELETE
\* without an argument prints its usage and removes nothing.
C40_DeleteRange ==
    [][Deleting =>
          Bind(TrimSpace(Head(session).arg), LAMBDA arg :
          IF WellFormed(arg)
          THEN /\ stored' = [num \in {k \in DOMAIN stored :
                                         k < RangeOf(arg).n
                                         \/ k > RangeOf(arg).m}
                                |-> stored[num]]
               /\ Last(stdout') =
                     DeleteReport(Cardinality(
                        {k \in DOMAIN stored : k >= RangeOf(arg).n
                                               /\ k <= RangeOf(arg).m}))
               /\ stderr' = stderr
          ELSE /\ stored' = stored
               /\ IF arg = <<>>
                  THEN Last(stdout') = DeleteUsage /\ stderr' = stderr
                  ELSE /\ Len(stderr') = Len(stderr) + 1
                       /\ Last(stderr').prefix = "Error: ")
      ]_vars

\* DELETE 1-2 (or 1 - 2, or 0-2) has removed the lines 1 and 2 of 1, 2, 3
C40_Witness ==
    /\ mode = "repl" /\ ctl = "repl"
    /\ session = <<>>
    /\ Last(stdout) = "Deleted 2 line(s)\n"
    /\ DOMAIN stored = {3}
    /\ stored[3] = LINE_3

\* DELETE 3-1 or DELETE 1x has reported an error and removed nothing
C40_WitnessRefused ==
    /\ mode = "repl" /\ ctl = "repl"
    /\ session = <<>>
    /\ Len(stderr) = 1
    /\ Last(stderr).prefix = "Error: "
    /\ Last(stderr).err = "end line must be >= start line"
    /\ DOMAIN stored = {1, 2, 3}

==============================================================================
